---- MODULE Spec2Model ----
(***************************************************************************)
(* Model of the merge engine of the social-media monitoring backend        *)
(* (helpers/mongo_helper.py: upsert_youtube_profile,                       *)
(* upsert_facebook_profile, upsert_twitter_profile,                        *)
(* upsert_instagram_profile) and of the scrape tasks that call it          *)
(* (routers/*.py).                                                         *)
(*                                                                         *)
(* A post record is a Python dict, modelled as a function from the keys    *)
(* it carries to their values; a missing key is a key outside its DOMAIN.  *)
(* A collection is the sequence of its documents in natural (insertion)    *)
(* order; the position of a document is its _id, documents are never       *)
(* deleted.  Python's None is NoUrl where a post_url is looked up and      *)
(* NoTime where a timestamp is looked up.                                  *)
(***************************************************************************)
EXTENDS Integers, Sequences, FiniteSets, TLC

\* ------------------------------------------------------------------ bounds
\* longest fresh batch handed to one merge
MaxBatch == 2
\* longest posts list of an aggregate the model follows
MaxPosts == 2
\* longest fresh batch of a concurrent merge
MaxRaceBatch == 1
\* most candidates a scrape task selects
MaxCands == 2
\* the links a profile's pages can reveal
MaxLinks == 6
\* longest token list handed to the parser
MaxTokens == 5

\* longest token list of the runs in which the parser is followed to its end
MaxLiveTokens == 4

\* the longest raw token list of a post page
MaxPostTokens == 4

\* longest reply of the language model, in lexical pieces
MaxReply == 3

\* most rounds of a comment-expansion loop the model follows; more than
\* max_load_attempts
MaxRounds == 22

\* most lexical pieces of an href
MaxHref == 4
\* largest max_posts of a discovery
MaxCap == 2
\* most new links one round of a discovery loop reveals
MaxPerRound == 2
\* the round budget max_attempts of scroll_and_extract and extract_photos_page
\* (50 and 40 in the source), scaled down; it stays above no_height_threshold
max_attempts == 4

\* ------------------------------------------------------------ value domains
Platforms == {"youtube", "facebook", "twitter", "instagram"}
Profiles == {"nike"}
URLs == {"u1", "u2"}
NoUrl == "None"
NoTime == 0
NoId == 0

\* Two scrapes of a page: the first carries a caption, the second does not
\* and has other comments and a later scraped_at.
PostV1(u) == [post_url |-> u, comments |-> "c1", caption |-> "k1", scraped_at |-> 1]
PostV2(u) == [post_url |-> u, comments |-> "c2", scraped_at |-> 2]
\* a record with no post_url key
AnonV1 == [comments |-> "c1", caption |-> "k1", scraped_at |-> 1]

Posts == {PostV1("u1"), PostV2("u1"), PostV2("u2"), AnonV1}

\* the readings of the wall clock (time.time(), time.strftime) a merge can take
Times == {1, 2}

Batches == UNION {[1..n -> Posts] : n \in 0..MaxBatch}

\* ---------------------------------------------------------- dict operations
\* dict.get("post_url")
Url(p) == IF "post_url" \in DOMAIN p THEN p["post_url"] ELSE NoUrl

\* dict.get("scraped_at")
ScrapedAt(p) == IF "scraped_at" \in DOMAIN p THEN p["scraped_at"] ELSE NoTime

\* d.setdefault(k, v)
SetDefault(d, k, v) == IF k \in DOMAIN d THEN d ELSE d @@ (k :> v)

\* merged = old.copy(); merged.update(new)
DictUpdate(old, new) == new @@ old

\* coll.update_one(..., {"$set": fields}) on one document
SetFields(doc, fields) == fields @@ doc

PostsKey(plat) == IF plat = "twitter" THEN "results" ELSE "posts"
TotalKey(plat) == IF plat = "twitter" THEN "total_tweets" ELSE "total_posts"
StampKey(plat) == IF plat = "twitter" THEN "scraped_at" ELSE "last_scraped_at"

UrlsOf(ps) == {Url(ps[i]) : i \in 1..Len(ps)} \ {NoUrl}

\* ------------------------------------------------------------ the url index
\* {post.get("post_url"): i for i, post in enumerate(existing_posts)}
\* (a later entry with the same key overwrites an earlier one); twitter and
\* instagram add "if post.get('post_url')".
IndexKeys(plat, ps) ==
    IF plat \in {"twitter", "instagram"}
    THEN UrlsOf(ps)
    ELSE {Url(ps[i]) : i \in 1..Len(ps)}

LastIndex(ps, u) == CHOOSE i \in 1..Len(ps) :
                        /\ Url(ps[i]) = u
                        /\ \A j \in 1..Len(ps) : Url(ps[j]) = u => j <= i

BuildIndex(plat, ps) == [u \in IndexKeys(plat, ps) |-> LastIndex(ps, u)]

\* ------------------------------------------------------------ the merge loop
Replace(st, p) ==
    [st EXCEPT !.posts[st.idx[Url(p)]] = p, !.updated = @ + 1]

AppendNew(st, p) ==
    [st EXCEPT !.posts = Append(@, p), !.added = @ + 1]

\* variant: the lookup in the index never matches
YtFbStepNoMatch(st, p) == AppendNew(st, p)

\* upsert_youtube_profile / upsert_facebook_profile: the index is built once
YtFbStep(st, p) ==
    IF Url(p) \in DOMAIN st.idx THEN Replace(st, p) ELSE AppendNew(st, p)

\* upsert_twitter_profile: a result with no post_url is skipped
TwitterStep(st, p) ==
    IF Url(p) = NoUrl THEN st
    ELSE IF Url(p) \in DOMAIN st.idx THEN Replace(st, p) ELSE AppendNew(st, p)

\* variant: a matched entry is replaced by the fresh record, as the other
\* helpers do
InstagramStepWholesale(st, p, now) ==
    IF Url(p) = NoUrl
    THEN AppendNew(st, SetDefault(p, "scraped_at", now))
    ELSE IF Url(p) \in DOMAIN st.idx
         THEN Replace(st, SetDefault(p, "scraped_at", now))
         ELSE [st EXCEPT
                 !.posts = Append(@, SetDefault(p, "scraped_at", now)),
                 !.idx = (Url(p) :> (Len(st.posts) + 1)) @@ @,
                 !.added = @ + 1]

\* upsert_instagram_profile: field-level update of a matched entry, the index
\* follows the appends
InstagramStep(st, p, now) ==
    IF Url(p) = NoUrl
    THEN AppendNew(st, SetDefault(p, "scraped_at", now))
    ELSE IF Url(p) \in DOMAIN st.idx
         THEN [st EXCEPT
                 !.posts[st.idx[Url(p)]] =
                     SetDefault(DictUpdate(@, p), "scraped_at", now),
                 !.updated = @ + 1]
         ELSE [st EXCEPT
                 !.posts = Append(@, SetDefault(p, "scraped_at", now)),
                 !.idx = (Url(p) :> (Len(st.posts) + 1)) @@ @,
                 !.added = @ + 1]

MergeStep(plat, st, p, now) ==
    CASE plat \in {"youtube", "facebook"} -> YtFbStep(st, p)
      [] plat = "twitter" -> TwitterStep(st, p)
      [] plat = "instagram" -> InstagramStep(st, p, now)

RECURSIVE MergeLoop(_, _, _, _, _)
MergeLoop(plat, st, batch, i, now) ==
    IF i > Len(batch) THEN st
    ELSE MergeLoop(plat, MergeStep(plat, st, batch[i], now), batch, i + 1, now)

MergeInto(plat, existing_posts, batch, now) ==
    MergeLoop(plat,
              [posts |-> existing_posts, idx |-> BuildIndex(plat, existing_posts),
               added |-> 0, updated |-> 0],
              batch, 1, now)

\* posts[0].get("scraped_at") as read after the loop: instagram's setdefault
\* mutates a fresh post that is appended (never one that is merged)
FirstStamp(plat, existing_posts, batch, now) ==
    IF /\ plat = "instagram"
       /\ Url(batch[1]) \notin IndexKeys(plat, existing_posts)
    THEN ScrapedAt(SetDefault(batch[1], "scraped_at", now))
    ELSE ScrapedAt(batch[1])

\* ------------------------------------------------------------- the documents
\* existing.get("posts", [])
GetPosts(plat, doc) ==
    IF PostsKey(plat) \in DOMAIN doc THEN doc[PostsKey(plat)] ELSE << >>

GetStamp(plat, doc) ==
    IF StampKey(plat) \in DOMAIN doc THEN doc[StampKey(plat)] ELSE NoTime

\* the document of the insert path
InsertDoc(plat, profile, batch, now) ==
    IF plat = "twitter"
    THEN [profile |-> profile, scraped_at |-> now,
          total_tweets |-> Len(batch), results |-> batch]
    ELSE [profile |-> profile, posts |-> batch, total_posts |-> Len(batch),
          scraped_at |-> IF Len(batch) > 0 THEN ScrapedAt(batch[1]) ELSE NoTime,
          last_scraped_at |-> IF Len(batch) > 0 THEN ScrapedAt(batch[1]) ELSE NoTime]

\* variant: the $set stores the fresh batch instead of the merged list
UpdatedDocFreshOnly(plat, existing, m, batch, now) ==
    IF plat = "twitter"
    THEN [results |-> batch, scraped_at |-> now, total_tweets |-> Len(batch)]
    ELSE [posts |-> batch, total_posts |-> Len(batch),
          last_scraped_at |-> GetStamp(plat, existing)]

\* variant: the count is taken before the loop appends
UpdatedDocStaleTotal(plat, existing, m, batch, now) ==
    IF plat = "twitter"
    THEN [results |-> m.posts, scraped_at |-> now,
          total_tweets |-> Len(GetPosts(plat, existing))]
    ELSE [posts |-> m.posts, total_posts |-> Len(GetPosts(plat, existing)),
          last_scraped_at |-> GetStamp(plat, existing)]

\* variant: every platform stamps the aggregate with the clock of the merge
UpdatedDocStampNow(plat, existing, m, batch, now) ==
    IF plat = "twitter"
    THEN [results |-> m.posts, scraped_at |-> now, total_tweets |-> Len(m.posts)]
    ELSE [posts |-> m.posts, total_posts |-> Len(m.posts),
          last_scraped_at |-> now]

\* updated_doc, the fields of the $set of the update path
UpdatedDoc(plat, existing, m, batch, now) ==
    IF plat = "twitter"
    THEN [results |-> m.posts, scraped_at |-> now, total_tweets |-> Len(m.posts)]
    ELSE [posts |-> m.posts, total_posts |-> Len(m.posts),
          last_scraped_at |->
              IF Len(batch) > 0
              THEN FirstStamp(plat, GetPosts(plat, existing), batch, now)
              ELSE GetStamp(plat, existing)]

\* the summaries returned to the caller
UpdateSummary(plat, m) ==
    IF plat \in {"youtube", "facebook"}
    THEN [operation |-> "updated", new_posts |-> m.added, updated_posts |-> m.updated]
    ELSE [operation |-> "updated", added |-> m.added, updated |-> m.updated]

InsertSummary(plat, id, batch) ==
    IF plat = "twitter"
    THEN [operation |-> "inserted", inserted_id |-> id]
    ELSE [operation |-> "inserted", inserted_id |-> id, posts_added |-> Len(batch)]

\* ----------------------------------------------------------------- the store
\* coll.find_one({"profile": profile}): the first match in natural order
FindOne(c, profile) ==
    IF \E i \in 1..Len(c) : c[i].profile = profile
    THEN CHOOSE i \in 1..Len(c) :
            /\ c[i].profile = profile
            /\ \A j \in 1..Len(c) : c[j].profile = profile => i <= j
    ELSE NoId

NoDoc == [id |-> NoId, doc |-> << >>]

\* the read of one merge invocation
ReadExisting(c, profile) ==
    IF FindOne(c, profile) = NoId THEN NoDoc
    ELSE [id |-> FindOne(c, profile), doc |-> c[FindOne(c, profile)]]

\* what one merge invocation computes between its read and its write
Plan(plat, profile, snap, batch, now) ==
    IF snap.id = NoId
    THEN [op |-> "insert", doc |-> InsertDoc(plat, profile, batch, now)]
    ELSE LET m == MergeInto(plat, GetPosts(plat, snap.doc), batch, now)
         IN  [op |-> "update", id |-> snap.id,
              fields |-> UpdatedDoc(plat, snap.doc, m, batch, now),
              summary |-> UpdateSummary(plat, m)]

\* the document an update_one of the merge selects: twitter filters on the
\* _id it read, the others on the profile
UpdateTarget(plat, c, profile, w) ==
    IF plat = "twitter" THEN w.id ELSE FindOne(c, profile)

\* variant: the update keeps the entries of the stored document whose post_url
\* the written list does not carry
ApplyWriteKeeping(plat, c, profile, w) ==
    IF w.op = "insert" THEN Append(c, w.doc)
    ELSE IF UpdateTarget(plat, c, profile, w) = NoId THEN c
         ELSE LET t == UpdateTarget(plat, c, profile, w)
                  written == w.fields[PostsKey(plat)]
                  kept == SelectSeq(GetPosts(plat, c[t]),
                                    LAMBDA e : Url(e) \notin UrlsOf(written))
              IN  [c EXCEPT ![t] =
                      SetFields(@, ((PostsKey(plat) :> (written \o kept))
                                    @@ (TotalKey(plat) :> Len(written \o kept))
                                    @@ w.fields))]

\* the write of one merge invocation: insert_one or update_one
ApplyWrite(plat, c, profile, w) ==
    IF w.op = "insert" THEN Append(c, w.doc)
    ELSE IF UpdateTarget(plat, c, profile, w) = NoId THEN c
         ELSE [c EXCEPT ![UpdateTarget(plat, c, profile, w)] = SetFields(@, w.fields)]

WriteSummary(plat, c, w, batch) ==
    IF w.op = "insert" THEN InsertSummary(plat, Len(c) + 1, batch) ELSE w.summary

\* the whole of upsert_<platform>_profile(profile, batch) on a store nobody
\* else touches
Upsert(plat, c, profile, batch, now) ==
    LET w == Plan(plat, profile, ReadExisting(c, profile), batch, now)
    IN  [coll |-> ApplyWrite(plat, c, profile, w),
         ret |-> WriteSummary(plat, c, w, batch)]

\* ------------------------------------------------------------------- state
VARIABLES
    platform,   \* the platform whose collection and helper are followed
    coll,       \* the collection: its documents in natural order
    pc,         \* serial caller: "collecting" a batch, or "merged" it
    batch,      \* serial caller: the fresh batch being collected / just merged
    ret,        \* serial caller: the summary the latest merge returned
    retried,    \* serial caller: the latest merge repeated the one before it
    supplied    \* the post_urls of all the batches merged so far

mergeVars == <<pc, batch, ret, retried, supplied>>

VARIABLES
    tpc,        \* concurrent task: "idle", "read", "write", "done"
    tbatch,     \* concurrent task: the fresh batch it was called with
    snap,       \* concurrent task: what its find_one returned
    order,      \* the concurrent tasks in the order of their writes
    raced,      \* a concurrent task read while another was between read and write
    calls       \* concurrent task: the calls it made on the collection, in order

raceVars == <<tpc, tbatch, snap, order, raced, calls>>

VARIABLES
    phase,      \* scrape task: "discover", "scrape", "save", "done", "cancelled"
    cands,      \* scrape task: the candidate URLs selected for scraping
    nextc,      \* scrape task: the position of the next candidate to scrape
    results,    \* scrape task: the records scraped so far
    coll0,      \* the collection as it was when the scrape task started
    endpoint,   \* scrape task: the route that runs it
    cause,      \* scrape task: what ended it ("none" while it runs)
    response,   \* scrape task: what the caller receives
    attempted,  \* scrape task: the candidates the loop has taken up, in order
    navfailed,  \* scrape task: the candidates whose page could not be opened
    session     \* scrape task: the browser of the task, "none", "open", "closed"

taskVars == <<phase, cands, nextc, results, coll0, endpoint, cause, response,
              attempted, navfailed, session>>

VARIABLES
    dpc,                \* discovery: "photos", "photos_done", "scroll", "scroll_done", "returned"
    stop_after,         \* discovery: max_posts of the request, 0 for none
    photo_links,        \* discovery: the list extract_photos_page builds
    post_links,         \* discovery: the set of post links of scroll_and_extract
    reels_links,        \* discovery: the set of reel links of scroll_and_extract
    last_count,         \* discovery: the link count after the previous round
    attempts,           \* discovery: rounds in a row that found no new link
    no_height_increase, \* discovery: rounds in a row the page height stayed
    rounds,             \* rounds the running loop has made
    exit,               \* how the last loop ended ("none" while it runs)
    recent,             \* what the last rounds of the loop observed
    steady,             \* the page has so far behaved as one loaded at once
    growing,            \* every round so far has found a new link
    seen,               \* the links in the order they were first found
    ordered             \* discovery: the candidates the task will scrape

discVars == <<dpc, stop_after, photo_links, post_links, reels_links, last_count,
              attempts, no_height_increase, rounds, exit, recent, steady,
              growing, seen, ordered>>

VARIABLES
    fpc,        \* a function under test: "start", "once", "twice"
    input,      \* its argument
    output,     \* what it returned
    again,      \* what it returned when applied to its own result
    pos,        \* parse_comments_array: the index i into the token list
    out,        \* parse_comments_array: the records emitted so far
    caption_collected,  \* parse_comments_array: the caption block was read
    meta_caption,       \* scrape_post_data: the og:description of the page
    caption,            \* scrape_post_data: the caption found so far
    comments_arr,       \* scrape_post_data: the raw tokens still to be parsed
    xpc,                \* comment expansion: "idle", "expanding", "expanded"
    load_attempts,      \* load_all_comments: attempts
    stable_rounds,      \* load_all_comments: stable_rounds
    prev_count,         \* load_all_comments: prev_count
    xrounds,            \* comment expansion: the rounds the loop has made
    apc,                \* analyzer: "idle", "called", "extracted", "except", "returned", "raised"
    areply,             \* analyzer: what openai.chat.completions.create did
    response_text,      \* analyzer: response_text
    json_bound,         \* analyzer: the local name json is bound (import json was run)
    aexc,               \* analyzer: the exception in flight
    aresult,            \* analyzer: what the call gave its caller
    afallbacks          \* analyzer: the values returned by the calls that failed

capVars == <<meta_caption, caption, comments_arr>>
expVars == <<xpc, load_attempts, stable_rounds, prev_count, xrounds>>
anaVars == <<apc, areply, response_text, json_bound, aexc, aresult, afallbacks>>
funVars == <<fpc, input, output, again, pos, out, caption_collected, capVars, expVars,
             anaVars>>
vars == <<platform, coll, mergeVars, raceVars, taskVars, discVars, funVars>>

Tasks == {"t1", "t2"}

\* the variables of a part of the model that a specification does not use
MergeIdle ==
    /\ pc = "collecting"
    /\ batch = << >>
    /\ ret = [operation |-> "none"]
    /\ retried = FALSE
    /\ supplied = {}

RaceIdle ==
    /\ tpc = [t \in Tasks |-> "idle"]
    /\ tbatch = [t \in Tasks |-> << >>]
    /\ snap = [t \in Tasks |-> NoDoc]
    /\ order = << >>
    /\ raced = FALSE
    /\ calls = [t \in Tasks |-> << >>]

TaskIdle ==
    /\ phase = "idle"
    /\ cands = << >>
    /\ nextc = 1
    /\ results = << >>
    /\ coll0 = << >>
    /\ endpoint = "none"
    /\ cause = "none"
    /\ response = [status |-> 0, success |-> "none", message |-> "none"]
    /\ attempted = << >>
    /\ navfailed = {}
    /\ session = "none"

CapIdle ==
    /\ meta_caption = ""
    /\ caption = << >>
    /\ comments_arr = << >>

ExpIdle ==
    /\ xpc = "idle"
    /\ load_attempts = 0
    /\ stable_rounds = 0
    /\ prev_count = -1
    /\ xrounds = 0

NoReply == [kind |-> "none"]
NoResult == [kind |-> "none"]

AnaIdle ==
    /\ apc = "idle"
    /\ areply = NoReply
    /\ response_text = << >>
    /\ json_bound = FALSE
    /\ aexc = "none"
    /\ aresult = NoResult
    /\ afallbacks = {}

FunIdle ==
    /\ CapIdle
    /\ ExpIdle
    /\ AnaIdle
    /\ fpc = "idle"
    /\ input = << >>
    /\ output = << >>
    /\ again = << >>
    /\ pos = 0
    /\ out = << >>
    /\ caption_collected = FALSE

DiscIdle ==
    /\ dpc = "idle"
    /\ stop_after = 0
    /\ photo_links = << >>
    /\ post_links = {}
    /\ reels_links = {}
    /\ last_count = 0
    /\ attempts = 0
    /\ no_height_increase = 0
    /\ rounds = 0
    /\ exit = "none"
    /\ recent = << >>
    /\ steady = TRUE
    /\ growing = TRUE
    /\ seen = << >>
    /\ ordered = << >>

NoRet == [operation |-> "none"]

\* the aggregate of a profile as a reader finds it
Aggregate(profile) == ReadExisting(coll, profile).doc
HasAggregate(profile) == FindOne(coll, profile) # NoId
AggPosts(profile) == GetPosts(platform, Aggregate(profile))

\* ------------------------------------------------- serial merges (SpecMerge)
\* One caller at a time: it collects a fresh batch, hands it to
\* upsert_<platform>_profile, and then either retries the merge with the same
\* batch or starts collecting the next batch.
InitMerge ==
    /\ platform \in Platforms
    /\ coll = << >>
    /\ MergeIdle
    /\ RaceIdle
    /\ TaskIdle
    /\ DiscIdle
    /\ FunIdle

\* the caller appends one fresh record to its batch (results.append(...))
Collect(p) ==
    /\ pc = "collecting"
    /\ Len(batch) < MaxBatch
    /\ batch' = Append(batch, p)
    /\ UNCHANGED <<platform, coll, pc, ret, retried, supplied, raceVars, taskVars, discVars, funVars>>

\* the caller returns and its next run starts with an empty batch
\* (results = [])
NewBatch ==
    /\ pc = "merged"
    /\ batch' = << >>
    /\ ret' = NoRet
    /\ retried' = FALSE
    /\ pc' = "collecting"
    /\ UNCHANGED <<platform, coll, supplied, raceVars, taskVars, discVars, funVars>>

\* one call of upsert_<platform>_profile(profile, batch), from its read to its
\* write; at pc = "merged" it is the retry of the merge with the same batch
Merge(profile, now) ==
    LET r == Upsert(platform, coll, profile, batch, now) IN
    /\ Len(GetPosts(platform, ReadExisting(r.coll, profile).doc)) <= MaxPosts
    /\ coll' = r.coll
    /\ ret' = r.ret
    /\ pc' = "merged"
    /\ retried' = (pc = "merged")
    /\ supplied' = supplied \cup UrlsOf(batch)
    /\ UNCHANGED <<platform, batch, raceVars, taskVars, discVars, funVars>>

NextMerge ==
    \/ \E p \in Posts : Collect(p)
    \/ NewBatch
    \/ \E profile \in Profiles, now \in Times : Merge(profile, now)

SpecMerge == InitMerge /\ [][NextMerge]_vars

\* ------------------------------------------- concurrent merges (SpecRace)
\* Two calls of upsert_<platform>_profile for one profile, each a find_one
\* followed by an insert_one or update_one with no lock in between.  The
\* store starts empty or holds the aggregate an earlier first merge created.
RaceBatches == UNION {[1..n -> Posts] : n \in 0..MaxRaceBatch}

InitRace ==
    /\ platform \in Platforms
    /\ \/ coll = << >>
       \/ \E profile \in Profiles, p \in Posts, now \in Times :
              coll = <<InsertDoc(platform, profile, <<p>>, now)>>
    /\ MergeIdle
    /\ RaceIdle
    /\ TaskIdle
    /\ DiscIdle
    /\ FunIdle

\* the task is called with its fresh batch
Begin(t, b) ==
    /\ tpc[t] = "idle"
    /\ tpc' = [tpc EXCEPT ![t] = "read"]
    /\ tbatch' = [tbatch EXCEPT ![t] = b]
    /\ UNCHANGED <<platform, coll, mergeVars, taskVars, discVars, funVars, snap, order, raced, calls>>

\* existing = coll.find_one({"profile": profile})
Read(t, profile) ==
    /\ tpc[t] = "read"
    /\ snap' = [snap EXCEPT ![t] = ReadExisting(coll, profile)]
    /\ tpc' = [tpc EXCEPT ![t] = "write"]
    /\ raced' = (raced \/ \E o \in Tasks \ {t} : tpc[o] = "write")
    /\ calls' = [calls EXCEPT ![t] = Append(@, "find_one")]
    /\ UNCHANGED <<platform, coll, mergeVars, taskVars, discVars, funVars, tbatch, order>>

\* the call that carries out a planned write
WriteCall(w) == IF w.op = "insert" THEN "insert_one" ELSE "update_one"

\* variant: the helper reads the document again just before it writes
WriteRereading(t, profile, now) ==
    /\ tpc[t] = "write"
    /\ coll' = ApplyWrite(platform, coll, profile,
                          Plan(platform, profile, ReadExisting(coll, profile),
                               tbatch[t], now))
    /\ calls' = [calls EXCEPT ![t] =
                     @ \o <<"find_one",
                            WriteCall(Plan(platform, profile,
                                           ReadExisting(coll, profile),
                                           tbatch[t], now))>>]
    /\ tpc' = [tpc EXCEPT ![t] = "done"]
    /\ order' = Append(order, t)
    /\ UNCHANGED <<platform, mergeVars, taskVars, discVars, funVars, tbatch, snap, raced>>

\* the merge loop and coll.insert_one(...) or coll.update_one(...)
Write(t, profile, now) ==
    /\ tpc[t] = "write"
    /\ coll' = ApplyWrite(platform, coll, profile,
                          Plan(platform, profile, snap[t], tbatch[t], now))
    /\ calls' = [calls EXCEPT ![t] =
                     Append(@, WriteCall(Plan(platform, profile, snap[t],
                                              tbatch[t], now)))]
    /\ tpc' = [tpc EXCEPT ![t] = "done"]
    /\ order' = Append(order, t)
    /\ UNCHANGED <<platform, mergeVars, taskVars, discVars, funVars, tbatch, snap, raced>>

NextRace ==
    \/ \E t \in Tasks, b \in RaceBatches : Begin(t, b)
    \/ \E t \in Tasks, profile \in Profiles : Read(t, profile)
    \/ \E t \in Tasks, profile \in Profiles, now \in Times : Write(t, profile, now)

SpecRace == InitRace /\ [][NextRace]_vars

\* ------------------------------------------------- one scrape task (SpecTask)
\* scrape_instagram, facebook_scrape, scrape_youtube, scrape_twitter_media:
\* discover the candidates, scrape them one by one in order, then hand the
\* batch to upsert_<platform>_profile.  The task can be cancelled wherever it
\* waits on the rendering session or on the store.
NoComments == "[]"
CommentLists == {NoComments, "c1"}

\* the lists of pairwise different URLs, at most MaxCands long
CandidateLists ==
    {cs \in UNION {[1..n -> URLs] : n \in 0..MaxCands} :
        \A i, j \in 1..Len(cs) : cs[i] = cs[j] => i = j}

\* the tweets of the profiles of a brand, in the order scrape_brand_comments
\* meets them: get_tweets_from_profile takes the link of every article of a
\* timeline and the lists of the profiles are put one after the other, with
\* no test for a link met before
TweetLists == UNION {[1..n -> URLs] : n \in 0..MaxCands}

\* what the discovery of a route can return
CandidatesOf(ep) == IF ep = "twitter_comments" THEN TweetLists ELSE CandidateLists

\* the record a task builds for one scraped candidate
TaskPost(plat, u, c, i, now) ==
    CASE plat = "instagram" ->
            [post_url |-> u, caption |-> "k1", hashtags |-> "[]",
             comments |-> c, post_index |-> i]
      [] plat = "facebook" ->
            [post_url |-> u, comments |-> c, scraped_at |-> now]
      [] plat = "youtube" ->
            [post_url |-> u, content |-> "t", comments |-> c, scraped_at |-> now]
      [] plat = "twitter" ->
            [user_profile |-> "x", post_url |-> u, content |-> "",
             timestamp |-> NoTime, comments |-> c,
             comment_count |-> IF c = NoComments THEN 0 ELSE 1]

\* the results after the loop body has run for one candidate: instagram
\* skips a candidate whose scrape raised or whose page URL is already among
\* the results, the others always append
ScrapeOne(plat, rs, post, ok) ==
    IF plat = "instagram"
    THEN IF ok /\ \A k \in 1..Len(rs) : Url(rs[k]) # Url(post)
         THEN Append(rs, post) ELSE rs
    ELSE Append(rs, post)

\* instagram stamps the records just before the merge
Stamped(plat, rs, now) ==
    IF plat = "instagram"
    THEN [k \in 1..Len(rs) |-> ("scraped_at" :> now) @@ rs[k]]
    ELSE rs

\* the routes: twitter has one for the comments of a brand's tweets and one
\* for the comments of its media posts
Endpoints == {"instagram", "facebook", "youtube", "twitter_comments", "twitter_media"}

EndpointsOf(plat) ==
    IF plat = "twitter" THEN {"twitter_comments", "twitter_media"} ELSE {plat}

\* what the caller receives: the HTTP status, the success field of the body
\* ("absent" when the body has none) and the message or detail
Resp(st, su, m) == [status |-> st, success |-> su, message |-> m]

NoResponse == Resp(0, "none", "none")

\* the errors a failed login can raise on instagram
LoginErrors == {"Session expired", "Timeout"}

\* the task ran to its end and the merge accepted the batch
SuccessResponse(ep) ==
    CASE ep = "instagram" -> Resp(200, "true", "Successfully scraped and saved")
      [] ep = "facebook" -> Resp(200, "absent", "scraped")
      [] ep = "youtube" -> Resp(200, "true", "Successfully scraped and saved")
      [] ep = "twitter_comments" -> Resp(200, "true", "Successfully scraped")
      [] ep = "twitter_media" -> Resp(200, "true", "Scraped media posts")

\* the route returns before its loop because nothing was found
NoContentResponse(ep) ==
    CASE ep = "instagram" -> Resp(200, "false", "No posts found")
      [] ep = "youtube" -> Resp(200, "false", "No videos found")
      [] ep = "twitter_comments" ->
            Resp(500, "absent", "Scraping failed: 404: No Twitter data found")
      [] ep = "twitter_media" -> Resp(404, "absent", "No Twitter profiles found for brand")
      [] ep = "facebook" -> SuccessResponse(ep)

\* the session could not be authenticated; scrape_brand_comments answers a
\* failed setup_driver with an empty result list
AuthFailureResponse(ep, err) ==
    CASE ep = "instagram" ->
            IF err = "Session expired"
            THEN Resp(200, "false", "Instagram session expired")
            ELSE Resp(200, "false", "Scraping failed: Timeout")
      [] ep = "facebook" -> Resp(401, "absent", "Facebook login failed")
      [] ep = "twitter_comments" -> NoContentResponse(ep)
      [] ep = "twitter_media" ->
            Resp(500, "absent", "Failed to initialize browser or load cookies")
      [] ep = "youtube" -> NoResponse

\* the merge raised: instagram prints the error, the twitter routes write a
\* local backup
StoreFailureResponse(ep, backupOk) ==
    CASE ep = "instagram" -> SuccessResponse(ep)
      [] ep = "facebook" -> Resp(500, "absent", "Failed to save results to MongoDB")
      [] ep = "youtube" ->
            Resp(200, "false", "Scraping completed but failed to save to database")
      [] ep = "twitter_comments" ->
            IF backupOk
            THEN Resp(200, "true", "Successfully scraped. Saved results to local backup")
            ELSE Resp(500, "absent", "Scraping failed: 500: Failed to save to MongoDB")
      [] ep = "twitter_media" ->
            IF backupOk
            THEN Resp(200, "true", "Scraped media posts. Saved local backup")
            ELSE Resp(500, "absent", "Media scraping failed")

\* the routes that log in before they discover
NeedsLogin(ep) == ep # "youtube"

\* where the task goes once discovery returned
AfterDiscover(ep, cs) ==
    IF cs # << >> THEN "scrape"
    ELSE IF ep \in {"instagram", "youtube", "twitter_comments"} THEN "done" ELSE "save"

\* variant: the merge call sits inside the loop
AfterScrapeEarly(i, cs) == "save"

\* where the task goes once candidate i is scraped: the merge follows the loop
AfterScrape(i, cs) == IF i >= Len(cs) THEN "save" ELSE "scrape"

\* the browser of the task once the route has returned or raised: the
\* facebook route quits its driver in a finally clause, scrape_brand_comments
\* does so too, the instagram and youtube routes close the browser and leave
\* the block of the playwright context; the media route of twitter has no
\* call that quits the driver its setup_driver opened
SessionAfterExit(ep) == IF ep = "twitter_media" THEN "open" ELSE "closed"

InitTask ==
    /\ platform \in Platforms
    /\ \/ coll = << >>
       \/ \E profile \in Profiles, p \in Posts, now \in Times :
              coll = <<InsertDoc(platform, profile, <<p>>, now)>>
    /\ MergeIdle
    /\ RaceIdle
    /\ DiscIdle
    /\ FunIdle
    /\ phase = "discover"
    /\ cands = << >>
    /\ nextc = 1
    /\ results = << >>
    /\ coll0 = coll
    /\ endpoint \in EndpointsOf(platform)
    /\ cause = "none"
    /\ response = NoResponse
    /\ attempted = << >>
    /\ navfailed = {}
    /\ session = "open"

\* the session cannot be authenticated: the task ends before discovery
LoginFails(err) ==
    /\ phase = "discover"
    /\ NeedsLogin(endpoint)
    /\ phase' = "done"
    /\ cause' = "auth"
    /\ response' = AuthFailureResponse(endpoint, err)
    /\ session' = "closed"
    /\ UNCHANGED <<platform, coll, mergeVars, raceVars, discVars, funVars, attempted, navfailed, cands, nextc, results,
                   coll0, endpoint>>

\* on the media route the search for the brand's profile finds nothing
NoProfile ==
    /\ phase = "discover"
    /\ endpoint = "twitter_media"
    /\ phase' = "done"
    /\ cause' = "no-content"
    /\ response' = NoContentResponse(endpoint)
    /\ UNCHANGED <<session, platform, coll, mergeVars, raceVars, discVars, funVars, attempted, navfailed, cands, nextc, results,
                   coll0, endpoint>>

\* frontier discovery and the selection of the candidates to scrape
Discover(cs) ==
    /\ phase = "discover"
    /\ cs \in CandidatesOf(endpoint)
    /\ cands' = cs
    /\ phase' = AfterDiscover(endpoint, cs)
    /\ cause' = IF cs = << >> THEN "no-content" ELSE cause
    /\ response' = IF AfterDiscover(endpoint, cs) = "done"
                   THEN NoContentResponse(endpoint) ELSE response
    /\ session' = IF AfterDiscover(endpoint, cs) = "done"
                  THEN SessionAfterExit(endpoint) ELSE session
    /\ UNCHANGED <<platform, coll, mergeVars, raceVars, discVars, funVars, attempted, navfailed, nextc, results, coll0,
                   endpoint>>

\* the routes whose loop has no handler around the scrape of one candidate:
\* twitter's scrape_comments raises when the page cannot be opened, and on the
\* media route nothing catches that before the route's own handler
AbortsOnFailure(ep) == ep = "twitter_media"

\* the route's handler answers an error raised inside the loop
ScrapeErrorResponse(ep) == Resp(500, "absent", "Media scraping failed")

\* one round of the loop: extract and parse the next candidate; ok is false
\* when its page cannot be opened or the extraction raises, and then there
\* are no comments.  On instagram the page opened may carry another URL than
\* the candidate.
ScrapeNext(pageUrl, c, ok, now) ==
    /\ phase = "scrape"
    /\ platform # "instagram" => pageUrl = cands[nextc]
    /\ ~ok => c = NoComments
    /\ attempted' = Append(attempted, cands[nextc])
    /\ navfailed' = IF ok THEN navfailed ELSE navfailed \cup {cands[nextc]}
    /\ IF ~ok /\ AbortsOnFailure(endpoint)
       THEN /\ phase' = "done"
            /\ cause' = "scrape-error"
            /\ response' = ScrapeErrorResponse(endpoint)
            /\ UNCHANGED <<results, nextc>>
       ELSE /\ results' = ScrapeOne(platform, results,
                                    TaskPost(platform, pageUrl, c, nextc, now), ok)
            /\ nextc' = nextc + 1
            /\ phase' = AfterScrape(nextc, cands)
            /\ UNCHANGED <<cause, response>>
    /\ UNCHANGED <<session, platform, coll, mergeVars, raceVars, discVars, funVars, cands, coll0,
                   endpoint>>

\* the single call of upsert_<platform>_profile; instagram skips it when
\* there are no results
Save(profile, now) ==
    /\ phase = "save"
    /\ coll' = IF platform = "instagram" /\ results = << >>
               THEN coll
               ELSE Upsert(platform, coll, profile,
                           Stamped(platform, results, now), now).coll
    /\ phase' = "done"
    /\ cause' = IF cause = "none" THEN "ok" ELSE cause
    /\ response' = SuccessResponse(endpoint)
    /\ session' = SessionAfterExit(endpoint)
    /\ UNCHANGED <<platform, mergeVars, raceVars, discVars, funVars, attempted, navfailed, cands, nextc, results, coll0,
                   endpoint>>

\* the store rejects the merge: upsert_<platform>_profile raises and nothing
\* is written
SaveRejected(backupOk) ==
    /\ phase = "save"
    /\ ~(platform = "instagram" /\ results = << >>)
    /\ phase' = "done"
    /\ cause' = "store"
    /\ response' = StoreFailureResponse(endpoint, backupOk)
    /\ session' = SessionAfterExit(endpoint)
    /\ UNCHANGED <<platform, coll, mergeVars, raceVars, discVars, funVars, attempted, navfailed, cands, nextc, results,
                   coll0, endpoint>>

\* the task is cancelled while it waits
Cancel ==
    /\ phase \in {"discover", "scrape", "save"}
    /\ phase' = "cancelled"
    /\ UNCHANGED <<session, platform, coll, mergeVars, raceVars, discVars, funVars, attempted, navfailed, cands, nextc, results,
                   coll0, endpoint, cause, response>>

NextTask ==
    \/ \E err \in LoginErrors : LoginFails(err)
    \/ NoProfile
    \/ \E cs \in TweetLists : Discover(cs)
    \/ \E u \in URLs, c \in CommentLists, ok \in BOOLEAN, now \in Times :
          ScrapeNext(u, c, ok, now)
    \/ \E profile \in Profiles, now \in Times : Save(profile, now)
    \/ \E backupOk \in BOOLEAN : SaveRejected(backupOk)
    \/ Cancel

SpecTask == InitTask /\ [][NextTask]_vars

\* ------------------------------------------- frontier discovery (SpecDiscover)
\* facebook_scrape: extract_photos_page, then scroll_and_extract, then the
\* selection of the candidates.  The canonical links of a profile are numbered
\* in the order the page reveals them; a link's number fixes which of the
\* path markers it carries.
no_height_threshold == 3

Links == 1..MaxLinks

Category(l) ==
    CASE l % 3 = 1 -> "post"
      [] l % 3 = 2 -> "reel"
      [] OTHER -> "photo"

PhotoPool == {l \in Links : Category(l) = "photo"}

Range(f) == {f[i] : i \in DOMAIN f}

Least(S) == CHOOSE x \in S : \A y \in S : x <= y

\* the elements of a set of links in the order the page shows them
RECURSIVE InPageOrder(_)
InPageOrder(S) ==
    IF S = {} THEN << >> ELSE <<Least(S)>> \o InPageOrder(S \ {Least(S)})

\* extract_photos_page appends the photo links of a round one by one and
\* returns at once when stop_after is reached
RECURSIVE AppendPhotos(_, _, _)
AppendPhotos(list, k, stop) ==
    IF k = 0 \/ PhotoPool \ Range(list) = {}
    THEN [links |-> list, returned |-> FALSE]
    ELSE LET new == Append(list, Least(PhotoPool \ Range(list)))
         IN  IF stop > 0 /\ Len(new) >= stop
             THEN [links |-> new, returned |-> TRUE]
             ELSE AppendPhotos(new, k - 1, stop)

\* attempts: reset whenever the link count changed
CountStep(att, total, last) == IF total = last THEN att + 1 ELSE 0

\* no_height_increase: reset whenever the page height changed
HeightStep(nohi, grew) == IF grew THEN 0 ELSE nohi + 1

\* variant: the stale signal looks at the page height only
StaleSignalHeightOnly(nohi, att) == nohi >= no_height_threshold

\* variant: the height must stay for more rounds than the threshold
StaleSignalLate(nohi, att) == nohi > no_height_threshold /\ att > 0

\* the page stopped growing and the last round found no new link
StaleSignal(nohi, att) == nohi >= no_height_threshold /\ att > 0

\* how a round ends the loop: the breaks at the end of the body, then the
\* while condition
LoopExit(stop, total, nohi, att) ==
    IF stop > 0 /\ total >= stop THEN "cap"
    ELSE IF StaleSignal(nohi, att) THEN "stale"
    ELSE IF att >= max_attempts THEN "budget"
    ELSE "none"

\* the last rounds a loop remembers, as many as the height threshold
Remember(rec, obs) ==
    IF Len(rec) < no_height_threshold THEN Append(rec, obs)
    ELSE Append(Tail(rec), obs)

\* list(a_set): the elements in an order the set chooses
Orderings(S) ==
    {f \in [1..Cardinality(S) -> S] : \A i, j \in DOMAIN f : f[i] = f[j] => i = j}

\* the order-preserving deduplication of facebook_scrape
RECURSIVE Dedup(_)
Dedup(q) ==
    IF q = << >> THEN << >>
    ELSE LET front == Dedup(SubSeq(q, 1, Len(q) - 1))
         IN  IF q[Len(q)] \in Range(front) THEN front
             ELSE Append(front, q[Len(q)])

\* variant: max_posts is not applied to the merged list
TruncateNever(q, n) == q

\* ordered[:max_posts] when max_posts is given
Truncate(q, n) == IF n > 0 /\ Len(q) > n THEN SubSeq(q, 1, n) ELSE q

InitDiscover ==
    /\ platform = "facebook"
    /\ coll = << >>
    /\ MergeIdle
    /\ RaceIdle
    /\ TaskIdle
    /\ FunIdle
    /\ dpc = "photos"
    /\ stop_after \in 0..MaxCap
    /\ photo_links = << >>
    /\ post_links = {}
    /\ reels_links = {}
    /\ last_count = 0
    /\ attempts = 0
    /\ no_height_increase = 0
    /\ rounds = 0
    /\ exit = "none"
    /\ recent = << >>
    /\ steady = TRUE
    /\ growing = TRUE
    /\ seen = << >>
    /\ ordered = << >>

\* the photos page cannot be opened: extract_photos_page returns no link
PhotosUnreachable ==
    /\ dpc = "photos"
    /\ rounds = 0
    /\ dpc' = "photos_done"
    /\ exit' = "unreachable"
    /\ UNCHANGED <<platform, coll, mergeVars, raceVars, taskVars, funVars, stop_after,
                   photo_links, post_links, reels_links, last_count, attempts,
                   no_height_increase, rounds, recent, steady, growing, seen,
                   ordered>>

\* one round of extract_photos_page: k more photo links are on the page,
\* the page height grew or not
PhotoRound(grew, k) ==
    /\ dpc = "photos"
    /\ attempts < max_attempts
    /\ k <= Cardinality(PhotoPool \ Range(photo_links))
    /\ LET r == AppendPhotos(photo_links, k, stop_after)
           total == Len(r.links)
           att == CountStep(attempts, total, last_count)
           nohi == HeightStep(no_height_increase, grew)
           ex == IF r.returned THEN "cap"
                 ELSE LoopExit(stop_after, total, nohi, att)
       IN  /\ photo_links' = r.links
           /\ seen' = r.links
           /\ attempts' = IF r.returned THEN attempts ELSE att
           /\ no_height_increase' = IF r.returned THEN no_height_increase ELSE nohi
           /\ last_count' = IF r.returned THEN last_count ELSE total
           /\ exit' = ex
           /\ dpc' = IF ex = "none" THEN "photos" ELSE "photos_done"
    /\ rounds' = rounds + 1
    /\ recent' = Remember(recent, [grew |-> grew, new |-> k > 0])
    /\ steady' = (steady /\ ~grew /\ (k > 0 => rounds = 0))
    /\ growing' = (growing /\ k > 0)
    /\ UNCHANGED <<platform, coll, mergeVars, raceVars, taskVars, funVars, stop_after,
                   post_links, reels_links, ordered>>

\* facebook_scrape calls scroll_and_extract, which starts its own counters
BeginScroll ==
    /\ dpc = "photos_done"
    /\ dpc' = "scroll"
    /\ last_count' = 0
    /\ attempts' = 0
    /\ no_height_increase' = 0
    /\ rounds' = 0
    /\ exit' = "none"
    /\ recent' = << >>
    /\ steady' = TRUE
    /\ UNCHANGED <<platform, coll, mergeVars, raceVars, taskVars, funVars, stop_after,
                   photo_links, post_links, reels_links, growing, seen, ordered>>

\* one round of scroll_and_extract: the profile page shows k more links
ScrollRound(grew, k) ==
    /\ dpc = "scroll"
    /\ attempts < max_attempts
    /\ k <= MaxLinks - Cardinality(post_links \cup reels_links)
    /\ LET shown == Cardinality(post_links \cup reels_links)
           new == (shown + 1)..(shown + k)
           posts == post_links \cup {l \in new : Category(l) # "reel"}
           reels == reels_links \cup {l \in new : Category(l) = "reel"}
           total == Cardinality(posts) + Cardinality(reels)
           att == CountStep(attempts, total, last_count)
           nohi == HeightStep(no_height_increase, grew)
           ex == LoopExit(stop_after, total, nohi, att)
       IN  /\ post_links' = posts
           /\ reels_links' = reels
           /\ seen' = seen \o InPageOrder(new \ Range(seen))
           /\ attempts' = att
           /\ no_height_increase' = nohi
           /\ last_count' = total
           /\ exit' = ex
           /\ dpc' = IF ex = "none" THEN "scroll" ELSE "scroll_done"
    /\ rounds' = rounds + 1
    /\ recent' = Remember(recent, [grew |-> grew, new |-> k > 0])
    /\ steady' = (steady /\ ~grew /\ (k > 0 => rounds = 0))
    /\ growing' = (growing /\ k > 0)
    /\ UNCHANGED <<platform, coll, mergeVars, raceVars, taskVars, funVars, stop_after,
                   photo_links, ordered>>

\* facebook_scrape joins the three lists, drops the repeats and cuts the
\* result to max_posts
Select(pl, rl) ==
    /\ dpc = "scroll_done"
    /\ ordered' = Truncate(Dedup(photo_links \o pl \o rl), stop_after)
    /\ dpc' = "returned"
    /\ UNCHANGED <<platform, coll, mergeVars, raceVars, taskVars, funVars, stop_after,
                   photo_links, post_links, reels_links, last_count, attempts,
                   no_height_increase, rounds, exit, recent, steady, growing,
                   seen>>

NextDiscover ==
    \/ PhotosUnreachable
    \/ \E grew \in BOOLEAN, k \in 0..MaxPerRound : PhotoRound(grew, k)
    \/ BeginScroll
    \/ \E grew \in BOOLEAN, k \in 0..MaxPerRound : ScrollRound(grew, k)
    \/ /\ dpc = "scroll_done"
       /\ \E pl \in Orderings(post_links), rl \in Orderings(reels_links) :
              Select(pl, rl)

SpecDiscover == InitDiscover /\ [][NextDiscover]_vars

\* ------------------------------------------- the link normalizer (SpecNormalize)
\* _normalize_fb_href.  An href is a string, modelled as the sequence of its
\* lexical pieces: the site origin, path pieces that begin with a slash, the
\* delimiters ? and #, the parameter name with its equals sign, a blank.
Origin == "https://www.facebook.com"

Pieces == {Origin, "/photo.php", "/Photo.php", "/posts/1", "?", "#", "fbid=", " "}

Hrefs == UNION {[1..n -> Pieces] : n \in 0..MaxHref}

\* None
Null == <<"None">>

\* str.lower() on a piece
Lower(t) == IF t = "/Photo.php" THEN "/photo.php" ELSE t

\* str.strip()
RECURSIVE Strip(_)
Strip(h) ==
    IF h = << >> THEN h
    ELSE IF h[1] = " " THEN Strip(Tail(h))
    ELSE IF h[Len(h)] = " " THEN Strip(SubSeq(h, 1, Len(h) - 1))
    ELSE h

\* href.startswith('/')
StartsWithSlash(h) ==
    h # << >> /\ h[1] \in {"/photo.php", "/Photo.php", "/posts/1", "/reel/1"}

\* needle in href.lower()
Contains(h, needle) == \E i \in 1..Len(h) : Lower(h[i]) = needle

\* href.split(d)[0], href.split(d, 1)[0]
Before(h, d) ==
    IF \E i \in 1..Len(h) : h[i] = d
    THEN SubSeq(h, 1, (CHOOSE i \in 1..Len(h) :
                          h[i] = d /\ \A j \in 1..(i - 1) : h[j] # d) - 1)
    ELSE h

\* what follows the first d
After(h, d) ==
    IF \E i \in 1..Len(h) : h[i] = d
    THEN SubSeq(h, (CHOOSE i \in 1..Len(h) :
                       h[i] = d /\ \A j \in 1..(i - 1) : h[j] # d) + 1, Len(h))
    ELSE << >>

\* urllib.parse.urljoin(origin, href) for an href that begins with a slash:
\* the path, query and fragment of href on the origin; an empty query or
\* fragment loses its delimiter
UrlJoin(h) ==
    LET frag == After(h, "#")
        main == Before(h, "#")
        query == After(main, "?")
        path == Before(main, "?")
    IN  <<Origin>> \o path
        \o (IF query = << >> THEN << >> ELSE <<"?">> \o query)
        \o (IF frag = << >> THEN << >> ELSE <<"#">> \o frag)

Absolute(h) == IF StartsWithSlash(h) THEN UrlJoin(h) ELSE h

\* _normalize_fb_href(href)
Normalize(href) ==
    IF href = << >> THEN Null
    ELSE LET h == Absolute(Strip(href))
         IN  IF Contains(h, "/photo.php")
             THEN IF Contains(h, "fbid=") THEN Before(h, "#") ELSE Null
             ELSE Before(Before(h, "?"), "#")

InitNormalize ==
    /\ platform = "facebook"
    /\ coll = << >>
    /\ MergeIdle
    /\ RaceIdle
    /\ TaskIdle
    /\ DiscIdle
    /\ ExpIdle
    /\ AnaIdle
    /\ CapIdle
    /\ fpc = "start"
    /\ input \in Hrefs
    /\ output = << >>
    /\ again = << >>
    /\ pos = 0
    /\ out = << >>
    /\ caption_collected = FALSE

\* the normalizer is applied to the href
NormalizeOnce ==
    /\ fpc = "start"
    /\ output' = Normalize(input)
    /\ fpc' = "once"
    /\ UNCHANGED <<platform, coll, mergeVars, raceVars, taskVars, discVars, anaVars, expVars,
                   input, again, pos, out, caption_collected, capVars>>

\* the normalizer is applied to its own result
NormalizeAgain ==
    /\ fpc = "once"
    /\ output # Null
    /\ again' = Normalize(output)
    /\ fpc' = "twice"
    /\ UNCHANGED <<platform, coll, mergeVars, raceVars, taskVars, discVars, anaVars, expVars,
                   input, output, pos, out, caption_collected, capVars>>

NextNormalize == NormalizeOnce \/ NormalizeAgain

SpecNormalize == InitNormalize /\ [][NextNormalize]_vars

\* ------------------------------------------ the token-stream parser (SpecParse)
\* parse_comments_array and its token predicates.  The tokens are strings;
\* the predicates are the regular expressions of the source applied to them.
Tokens == {"alice", "bob", "great product!", "2h", "15 likes", "Reply"}

TokenLists == UNION {[1..n -> Tokens] : n \in 0..MaxTokens}

\* USERNAME_RE ^[A-Za-z0-9_.@-]{2,50}$, no blank, no newline
is_username_token(t) == t \in {"alice", "bob", "2h", "Reply"}

\* TIME_RE ^(\d+\s*[wdhm]|...)
is_time_token(t) == t \in {"2h", "2 h", "3 d", "2 h 15 likes"}

\* LIKES_RE ^(\d+\s*likes?|\d+\s*like)$, or 'like' with a digit
is_likes_token(t) == t \in {"15 likes", "7 likes", "2 h 15 likes"}

\* s.strip().lower() in UI_TOKENS
is_ui_token(t) == t \in {"Reply"}

\* extract_time_and_likes(s): (posted, likes)
extract_time_and_likes(t) ==
    [posted |-> IF t \in {"2h", "2 h", "2 h 15 likes"} THEN "2h"
                ELSE IF t = "3 d" THEN "3d" ELSE "",
     likes |-> IF t \in {"15 likes", "2 h 15 likes"} THEN "15 likes"
               ELSE IF t = "7 likes" THEN "7 likes" ELSE ""]

\* arr[i], with the 0-based index of the source
Tok(arr, k) == arr[k + 1]

\* a text is the sequence of the parts joined with blanks
Comment(u, text, posted, likes) ==
    [username |-> u, text |-> text, posted_before |-> posted, likes |-> likes,
     reply |-> << >>]

\* x or y on strings
OrElse(x, y) == IF x # "" THEN x ELSE y

\* variant: a caption block that also takes the usernames after its time token
RECURSIVE CaptionLoopGreedy(_, _)
CaptionLoopGreedy(arr, c) ==
    IF c.i >= Len(arr) THEN c
    ELSE LET t == Tok(arr, c.i)
         IN  IF is_time_token(t) /\ ~c.time_found
             THEN CaptionLoopGreedy(arr, [c EXCEPT
                      !.posted_before = extract_time_and_likes(t).posted,
                      !.time_found = TRUE, !.i = @ + 1])
             ELSE IF is_ui_token(t) THEN CaptionLoopGreedy(arr, [c EXCEPT !.i = @ + 1])
             ELSE CaptionLoopGreedy(arr, [c EXCEPT
                      !.parts = IF is_likes_token(t) THEN @ ELSE Append(@, t),
                      !.i = @ + 1])

\* the inner loop of the caption block
RECURSIVE CaptionLoop(_, _)
CaptionLoop(arr, c) ==
    IF c.i >= Len(arr) THEN c
    ELSE LET t == Tok(arr, c.i)
         IN  IF is_time_token(t) /\ ~c.time_found
             THEN CaptionLoop(arr, [c EXCEPT
                      !.posted_before = extract_time_and_likes(t).posted,
                      !.time_found = TRUE, !.i = @ + 1])
             ELSE IF is_username_token(t) /\ c.time_found THEN c
             ELSE IF is_ui_token(t) THEN CaptionLoop(arr, [c EXCEPT !.i = @ + 1])
             ELSE CaptionLoop(arr, [c EXCEPT
                      !.parts = IF is_likes_token(t) THEN @ ELSE Append(@, t),
                      !.i = @ + 1])

\* the caption block: the first username of the stream and what follows it
CaptionBlock(arr, st) ==
    LET c == CaptionLoop(arr, [i |-> st.i + 1, parts |-> << >>,
                               time_found |-> FALSE, posted_before |-> ""])
    IN  [i |-> c.i,
         out |-> IF c.parts # << >> \/ c.posted_before # ""
                 THEN Append(st.out, Comment(Tok(arr, st.i), c.parts,
                                             c.posted_before, ""))
                 ELSE st.out,
         cc |-> TRUE]

\* the text loop of a comment: up to a time, username, UI or likes token
RECURSIVE TextLoop(_, _, _)
TextLoop(arr, k, parts) ==
    IF /\ k < Len(arr)
       /\ ~is_time_token(Tok(arr, k))
       /\ ~is_username_token(Tok(arr, k))
       /\ ~is_ui_token(Tok(arr, k))
       /\ ~is_likes_token(Tok(arr, k))
    THEN TextLoop(arr, k + 1, Append(parts, Tok(arr, k)))
    ELSE [i |-> k, parts |-> parts]

\* the text loop after the time token of a single-username comment
RECURSIVE LateTextLoop(_, _, _, _)
LateTextLoop(arr, k, parts, likes) ==
    IF /\ k < Len(arr)
       /\ ~is_username_token(Tok(arr, k))
       /\ ~is_time_token(Tok(arr, k))
       /\ ~is_ui_token(Tok(arr, k))
    THEN IF is_likes_token(Tok(arr, k))
         THEN [i |-> k + 1, parts |-> parts, likes |-> OrElse(likes, Tok(arr, k))]
         ELSE LateTextLoop(arr, k + 1, Append(parts, Tok(arr, k)), likes)
    ELSE [i |-> k, parts |-> parts, likes |-> likes]

\* a comment that opens with its username twice
DoubledComment(arr, st) ==
    LET a == TextLoop(arr, st.i + 2, << >>)
        timed == a.i < Len(arr) /\ is_time_token(Tok(arr, a.i))
        tl == IF timed THEN extract_time_and_likes(Tok(arr, a.i))
              ELSE [posted |-> "", likes |-> ""]
        k == IF timed THEN a.i + 1 ELSE a.i
        liked == k < Len(arr) /\ is_likes_token(Tok(arr, k))
    IN  [i |-> IF liked THEN k + 1 ELSE k,
         out |-> Append(st.out,
                        Comment(Tok(arr, st.i), a.parts, tl.posted,
                                IF liked THEN Tok(arr, k) ELSE tl.likes)),
         cc |-> st.cc]

\* a comment that opens with its username once
SingleComment(arr, st) ==
    LET a == TextLoop(arr, st.i + 1, << >>)
        timed == a.i < Len(arr) /\ is_time_token(Tok(arr, a.i))
        tl == IF timed THEN extract_time_and_likes(Tok(arr, a.i))
              ELSE [posted |-> "", likes |-> ""]
        b == IF timed THEN LateTextLoop(arr, a.i + 1, a.parts, tl.likes)
             ELSE [i |-> a.i, parts |-> a.parts, likes |-> ""]
        liked == b.i < Len(arr) /\ is_likes_token(Tok(arr, b.i)) /\ b.likes = ""
    IN  [i |-> IF liked THEN b.i + 1 ELSE b.i,
         out |-> Append(st.out,
                        Comment(Tok(arr, st.i), b.parts, tl.posted,
                                IF liked THEN Tok(arr, b.i) ELSE b.likes)),
         cc |-> st.cc]

\* variant: a token met at top level that leaves the index where it is
OrphanTokenStuck(arr, st) ==
    LET t == Tok(arr, st.i)
        last == Len(st.out)
        tl == extract_time_and_likes(t)
    IN  [i |-> st.i,
         out |-> IF last = 0 THEN st.out
                 ELSE IF is_time_token(t)
                 THEN [st.out EXCEPT
                          ![last].posted_before = OrElse(@, tl.posted),
                          ![last].likes = OrElse(@, tl.likes)]
                 ELSE IF is_likes_token(t)
                 THEN [st.out EXCEPT ![last].likes = OrElse(@, t)]
                 ELSE st.out,
         cc |-> st.cc]

\* variant: a text met at top level opens a record of its own
OrphanTokenRecord(arr, st) ==
    LET t == Tok(arr, st.i)
        last == Len(st.out)
        tl == extract_time_and_likes(t)
    IN  [i |-> st.i + 1,
         out |-> IF is_time_token(t) \/ is_likes_token(t)
                 THEN IF last = 0 THEN st.out
                      ELSE IF is_time_token(t)
                      THEN [st.out EXCEPT
                               ![last].posted_before = OrElse(@, tl.posted),
                               ![last].likes = OrElse(@, tl.likes)]
                      ELSE [st.out EXCEPT ![last].likes = OrElse(@, t)]
                 ELSE Append(st.out, Comment(t, << >>, "", "")),
         cc |-> st.cc]

\* variant: the time and the likes of an orphan token replace those of the
\* last record
OrphanTokenOverwrite(arr, st) ==
    LET t == Tok(arr, st.i)
        last == Len(st.out)
        tl == extract_time_and_likes(t)
    IN  [i |-> st.i + 1,
         out |-> IF last = 0 THEN st.out
                 ELSE IF is_time_token(t)
                 THEN [st.out EXCEPT
                          ![last].posted_before = tl.posted,
                          ![last].likes = OrElse(tl.likes, @)]
                 ELSE IF is_likes_token(t)
                 THEN [st.out EXCEPT ![last].likes = t]
                 ELSE [st.out EXCEPT ![last].text = Append(@, t)],
         cc |-> st.cc]

\* a time, likes or text token met at top level goes to the last record
OrphanToken(arr, st) ==
    LET t == Tok(arr, st.i)
        last == Len(st.out)
        tl == extract_time_and_likes(t)
    IN  [i |-> st.i + 1,
         out |-> IF last = 0 THEN st.out
                 ELSE IF is_time_token(t)
                 THEN [st.out EXCEPT
                          ![last].posted_before = OrElse(@, tl.posted),
                          ![last].likes = OrElse(@, tl.likes)]
                 ELSE IF is_likes_token(t)
                 THEN [st.out EXCEPT ![last].likes = OrElse(@, t)]
                 ELSE [st.out EXCEPT ![last].text = Append(@, t)],
         cc |-> st.cc]

\* one iteration of the main loop of parse_comments_array
MainStep(arr, st) ==
    LET t == Tok(arr, st.i)
    IN  IF is_ui_token(t) THEN [st EXCEPT !.i = @ + 1]
        ELSE IF ~st.cc /\ is_username_token(t) THEN CaptionBlock(arr, st)
        ELSE IF /\ is_username_token(t)
                /\ st.i + 1 < Len(arr)
                /\ Tok(arr, st.i + 1) = t
             THEN DoubledComment(arr, st)
        ELSE IF is_username_token(t) THEN SingleComment(arr, st)
        ELSE OrphanToken(arr, st)

InitParse ==
    /\ platform = "instagram"
    /\ coll = << >>
    /\ MergeIdle
    /\ RaceIdle
    /\ TaskIdle
    /\ DiscIdle
    /\ ExpIdle
    /\ AnaIdle
    /\ CapIdle
    /\ fpc = "parsing"
    /\ input \in TokenLists
    /\ output = << >>
    /\ again = << >>
    /\ pos = 0
    /\ out = << >>
    /\ caption_collected = FALSE

\* while i < n: one iteration
ParseStep ==
    /\ fpc = "parsing"
    /\ pos < Len(input)
    /\ LET st == MainStep(input, [i |-> pos, out |-> out, cc |-> caption_collected])
       IN  /\ pos' = st.i
           /\ out' = st.out
           /\ caption_collected' = st.cc
    /\ UNCHANGED <<platform, coll, mergeVars, raceVars, taskVars, discVars, anaVars, expVars,
                   fpc, input, output, again, capVars>>

\* return out
ParseReturn ==
    /\ fpc = "parsing"
    /\ pos >= Len(input)
    /\ fpc' = "parsed"
    /\ output' = out
    /\ UNCHANGED <<platform, coll, mergeVars, raceVars, taskVars, discVars, anaVars, expVars,
                   input, again, pos, out, caption_collected, capVars>>

NextParse == ParseStep \/ ParseReturn

SpecParse == InitParse /\ [][NextParse]_vars

\* the parser run as the interpreter runs it: the loop always takes its next
\* iteration
LiveTokenLists == UNION {[1..n -> Tokens] : n \in 0..MaxLiveTokens}

InitParseLive ==
    /\ platform = "instagram"
    /\ coll = << >>
    /\ MergeIdle
    /\ RaceIdle
    /\ TaskIdle
    /\ DiscIdle
    /\ ExpIdle
    /\ AnaIdle
    /\ CapIdle
    /\ fpc = "parsing"
    /\ input \in LiveTokenLists
    /\ output = << >>
    /\ again = << >>
    /\ pos = 0
    /\ out = << >>
    /\ caption_collected = FALSE

SpecParseLive == InitParseLive /\ [][NextParse]_vars /\ WF_vars(NextParse)

AllUi(arr) == \A k \in 1..Len(arr) : is_ui_token(arr[k])

\* the same parser on token lists that hold a text without letters or digits
\* token lists with times and likes that have not the form of a username, so
\* that they can be met at top level: a spaced time, a second time, a second
\* likes count, and a time that carries a likes count
OrphanTokens == {"alice", "2 h", "3 d", "15 likes", "7 likes", "2 h 15 likes"}

OrphanTokenLists == UNION {[1..n -> OrphanTokens] : n \in 0..MaxTokens}

InitParseOrphan ==
    /\ platform = "instagram"
    /\ coll = << >>
    /\ MergeIdle
    /\ RaceIdle
    /\ TaskIdle
    /\ DiscIdle
    /\ ExpIdle
    /\ AnaIdle
    /\ CapIdle
    /\ fpc = "parsing"
    /\ input \in OrphanTokenLists
    /\ output = << >>
    /\ again = << >>
    /\ pos = 0
    /\ out = << >>
    /\ caption_collected = FALSE

SpecParseOrphan == InitParseOrphan /\ [][NextParse]_vars

SymbolTokens == {"alice", "bob", "!!!", "2h"}

SymbolTokenLists == UNION {[1..n -> SymbolTokens] : n \in 0..MaxTokens}

InitParseSymbols ==
    /\ platform = "instagram"
    /\ coll = << >>
    /\ MergeIdle
    /\ RaceIdle
    /\ TaskIdle
    /\ DiscIdle
    /\ ExpIdle
    /\ AnaIdle
    /\ CapIdle
    /\ fpc = "parsing"
    /\ input \in SymbolTokenLists
    /\ output = << >>
    /\ again = << >>
    /\ pos = 0
    /\ out = << >>
    /\ caption_collected = FALSE

SpecParseSymbols == InitParseSymbols /\ [][NextParse]_vars

\* ----------------------------------------- the caption of a post (SpecCaption)
\* scrape_post_data from the raw tokens on: the caption is looked for in the
\* raw tokens, then in the parsed comments, then in the og:description of the
\* page, and what is left of the raw tokens is parsed into the comments.

\* the whole parse of a token list
RECURSIVE ParseFrom(_, _)
ParseFrom(arr, st) ==
    IF st.i >= Len(arr) THEN st.out ELSE ParseFrom(arr, MainStep(arr, st))

parse_comments_array(arr) == ParseFrom(arr, [i |-> 0, out |-> << >>, cc |-> FALSE])

\* a free text of more than 30 characters
LongText == "new season, new colours: the collection is in stores now #nike"

\* the raw tokens of a page; the loop that collects them drops 'Reply'
PostTokens == {"alice", "bob", "great product!", "2h", LongText}

PostTokenLists == UNION {[1..n -> PostTokens] : n \in 0..MaxPostTokens}

\* the account the post was opened for
post_username == "alice"

\* the content of meta[property='og:description']; "" also when it is absent
FollowersMeta == "1M Followers, 10 Following, 100 Posts"
HeaderCaption == "alice on Instagram: the new collection"
MetaCaptions == {"", HeaderCaption, FollowersMeta}

\* "Followers" not in meta_caption and "Following" not in meta_caption
UsableMeta(m) == m # "" /\ m # FollowersMeta

\* len(s) of a token
TokLen(t) ==
    CASE t = "alice" -> 5
      [] t = "bob" -> 3
      [] t = "great product!" -> 14
      [] t = "2h" -> 2
      [] t = "15 likes" -> 8
      [] t = "Reply" -> 5
      [] OTHER -> 62

\* len(' '.join(parts))
RECURSIVE TextLen(_)
TextLen(parts) ==
    IF parts = << >> THEN 0
    ELSE IF Len(parts) = 1 THEN TokLen(parts[1])
    ELSE TokLen(Head(parts)) + 1 + TextLen(Tail(parts))

\* re.findall(r"#\w+", ...) on one token
HashtagsOf(t) == IF t = LongText THEN <<"#nike">> ELSE << >>

RECURSIVE Hashtags(_)
Hashtags(parts) ==
    IF parts = << >> THEN << >> ELSE HashtagsOf(Head(parts)) \o Hashtags(Tail(parts))

\* a raw token that looks like the caption text
LooksLikeCaption(t) ==
    /\ TokLen(t) > 30
    /\ ~is_username_token(t)
    /\ ~is_time_token(t)
    /\ ~is_likes_token(t)
    /\ ~is_ui_token(t)

\* walk back over the username tokens that precede position start (from 1)
RECURSIVE SpliceStart(_, _)
SpliceStart(arr, start) ==
    IF start > 1 /\ is_username_token(arr[start - 1])
    THEN SpliceStart(arr, start - 1)
    ELSE start

\* del arr[from:to], positions from 1, both ends included
DeleteSlice(arr, from, to) == SubSeq(arr, 1, from - 1) \o SubSeq(arr, to + 1, Len(arr))

\* the caption found directly in the raw tokens, and the tokens left
DirectCaption(arr) ==
    LET S == {k \in 1..Len(arr) : LooksLikeCaption(arr[k])}
    IN  IF S = {} THEN [caption |-> << >>, arr |-> arr]
        ELSE LET k == Least(S)
             IN  [caption |-> <<arr[k]>>,
                  arr |-> DeleteSlice(arr, SpliceStart(arr, k), k)]

\* username is the account of the post or holds its name
Related(username) == username = post_username

\* the index (from 0) of the first token that is this username, 0 if none
NextIdx(arr, username) ==
    LET S == {k \in 1..Len(arr) : is_username_token(arr[k]) /\ arr[k] = username}
    IN  IF S = {} THEN 0 ELSE Least(S) - 1

\* the caption found among the first three parsed comments, and the tokens left
RECURSIVE ParsedCaptionFrom(_, _, _)
ParsedCaptionFrom(arr, parsed, k) ==
    IF k > Len(parsed) \/ k > 3 THEN [caption |-> << >>, arr |-> arr]
    ELSE IF TextLen(parsed[k].text) > 20 /\ Related(parsed[k].username)
    THEN [caption |-> parsed[k].text,
          arr |-> LET n == NextIdx(arr, parsed[k].username)
                  IN  IF n > 0 THEN SubSeq(arr, n + 1, Len(arr)) ELSE arr]
    ELSE IF TextLen(parsed[k].text) > 20 /\ k = 1
    THEN [caption |-> parsed[k].text, arr |-> arr]
    ELSE ParsedCaptionFrom(arr, parsed, k + 1)

ParsedCaption(arr) == ParsedCaptionFrom(arr, parse_comments_array(arr), 1)

\* the record scrape_post_data returns; page.url is added by the task
PostData(cap, arr) ==
    [caption |-> cap, hashtags |-> Hashtags(cap), comments |-> parse_comments_array(arr)]

InitCaption ==
    /\ platform = "instagram"
    /\ coll = << >>
    /\ MergeIdle
    /\ RaceIdle
    /\ TaskIdle
    /\ DiscIdle
    /\ ExpIdle
    /\ AnaIdle
    /\ fpc = "raw"
    /\ input \in PostTokenLists
    /\ output = << >>
    /\ again = << >>
    /\ pos = 0
    /\ out = << >>
    /\ caption_collected = FALSE
    /\ meta_caption \in MetaCaptions
    /\ caption = << >>
    /\ comments_arr = input

\* look for the caption text in the raw tokens
FindDirect ==
    /\ fpc = "raw"
    /\ fpc' = "direct"
    /\ caption' = DirectCaption(comments_arr).caption
    /\ comments_arr' = DirectCaption(comments_arr).arr
    /\ UNCHANGED <<platform, coll, mergeVars, raceVars, taskVars, discVars, anaVars, expVars,
                   input, output, again, pos, out, caption_collected, meta_caption>>

\* if not caption: look for it in the parsed comments
FindParsed ==
    /\ fpc = "direct"
    /\ fpc' = "parsed"
    /\ IF caption = << >> /\ comments_arr # << >>
       THEN /\ caption' = ParsedCaption(comments_arr).caption
            /\ comments_arr' = ParsedCaption(comments_arr).arr
       ELSE UNCHANGED <<caption, comments_arr>>
    /\ UNCHANGED <<platform, coll, mergeVars, raceVars, taskVars, discVars, anaVars, expVars,
                   input, output, again, pos, out, caption_collected, meta_caption>>

\* if not caption: fall back to the og:description
FindMeta ==
    /\ fpc = "parsed"
    /\ fpc' = "meta"
    /\ caption' = IF caption = << >> /\ UsableMeta(meta_caption)
                  THEN <<meta_caption>> ELSE caption
    /\ UNCHANGED <<platform, coll, mergeVars, raceVars, taskVars, discVars, anaVars, expVars,
                   input, output, again, pos, out, caption_collected, meta_caption,
                   comments_arr>>

\* parse what is left of the raw tokens and return the record
ReturnPost ==
    /\ fpc = "meta"
    /\ fpc' = "scraped"
    /\ output' = PostData(caption, comments_arr)
    /\ UNCHANGED <<platform, coll, mergeVars, raceVars, taskVars, discVars, anaVars, expVars,
                   input, again, pos, out, caption_collected, capVars>>

NextCaption == FindDirect \/ FindParsed \/ FindMeta \/ ReturnPost

SpecCaption == InitCaption /\ [][NextCaption]_vars

\* ------------------------------------- the comment-expansion loop (SpecExpand)
\* load_all_comments (instagram), the 'View more comments' loop of
\* scrape_comments_for_url (facebook) and scroll_until_all_comments_loaded
\* (youtube).  The page decides in every round what the loop observes.

\* while attempts < 20 and stable_rounds < 4
max_load_attempts == 20
max_stable_rounds == 4

\* the numbers of comment elements a page can show
MaxElems == 2
ElemCounts == 0..MaxElems

InitExpand ==
    /\ platform \in {"instagram", "facebook", "youtube"}
    /\ coll = << >>
    /\ MergeIdle
    /\ RaceIdle
    /\ TaskIdle
    /\ DiscIdle
    /\ CapIdle
    /\ AnaIdle
    /\ fpc = "idle"
    /\ input = << >>
    /\ output = << >>
    /\ again = << >>
    /\ pos = 0
    /\ out = << >>
    /\ caption_collected = FALSE
    /\ xpc = "expanding"
    /\ load_attempts = 0
    /\ stable_rounds = 0
    /\ prev_count = -1
    /\ xrounds = 0

\* one iteration of load_all_comments: some affordance was clicked or none
\* was, and curr_count elements are counted
InstagramRound(clicked_any, curr_count) ==
    /\ platform = "instagram"
    /\ xpc = "expanding"
    /\ load_attempts < max_load_attempts /\ stable_rounds < max_stable_rounds
    /\ IF curr_count = prev_count
       THEN /\ stable_rounds' = IF clicked_any THEN stable_rounds ELSE stable_rounds + 1
            /\ UNCHANGED prev_count
       ELSE /\ stable_rounds' = 0
            /\ prev_count' = curr_count
    /\ load_attempts' = load_attempts + 1
    /\ xrounds' = xrounds + 1
    /\ UNCHANGED <<platform, coll, mergeVars, raceVars, taskVars, discVars, anaVars,
                   fpc, input, output, again, pos, out, caption_collected, capVars, xpc>>

\* the loop condition of load_all_comments fails
InstagramDone ==
    /\ platform = "instagram"
    /\ xpc = "expanding"
    /\ ~(load_attempts < max_load_attempts /\ stable_rounds < max_stable_rounds)
    /\ xpc' = "expanded"
    /\ UNCHANGED <<platform, coll, mergeVars, raceVars, taskVars, discVars, anaVars,
                   fpc, input, output, again, pos, out, caption_collected, capVars,
                   load_attempts, stable_rounds, prev_count, xrounds>>

\* one iteration of the facebook loop: a button is found and the click goes
\* through
FacebookRound ==
    /\ platform = "facebook"
    /\ xpc = "expanding"
    /\ xrounds < MaxRounds
    /\ xrounds' = xrounds + 1
    /\ UNCHANGED <<platform, coll, mergeVars, raceVars, taskVars, discVars, anaVars,
                   fpc, input, output, again, pos, out, caption_collected, capVars,
                   xpc, load_attempts, stable_rounds, prev_count>>

\* no button is left, or the click or the search raises
FacebookDone ==
    /\ platform = "facebook"
    /\ xpc = "expanding"
    /\ xpc' = "expanded"
    /\ UNCHANGED <<platform, coll, mergeVars, raceVars, taskVars, discVars, anaVars,
                   fpc, input, output, again, pos, out, caption_collected, capVars,
                   load_attempts, stable_rounds, prev_count, xrounds>>

\* one iteration of the youtube loop: the document has grown
YoutubeRound ==
    /\ platform = "youtube"
    /\ xpc = "expanding"
    /\ xrounds < MaxRounds
    /\ xrounds' = xrounds + 1
    /\ UNCHANGED <<platform, coll, mergeVars, raceVars, taskVars, discVars, anaVars,
                   fpc, input, output, again, pos, out, caption_collected, capVars,
                   xpc, load_attempts, stable_rounds, prev_count>>

\* new_height == last_height, or the driver raises
YoutubeDone ==
    /\ platform = "youtube"
    /\ xpc = "expanding"
    /\ xpc' = "expanded"
    /\ UNCHANGED <<platform, coll, mergeVars, raceVars, taskVars, discVars, anaVars,
                   fpc, input, output, again, pos, out, caption_collected, capVars,
                   load_attempts, stable_rounds, prev_count, xrounds>>

NextExpand ==
    \/ \E clicked_any \in BOOLEAN, curr_count \in ElemCounts :
           InstagramRound(clicked_any, curr_count)
    \/ InstagramDone
    \/ FacebookRound
    \/ FacebookDone
    \/ YoutubeRound
    \/ YoutubeDone

SpecExpand == InitExpand /\ [][NextExpand]_vars

\* ------------------------------------------------- the link scan of a round
\* scroll_and_extract, lines 346-387: one element of the page is scanned,
\* an anchor with its href or an element with the text of its onclick and
\* data-* attributes.
ScanPieces == Pieces \cup {"/reel/1"}
ScanHrefs == UNION {[1..n -> ScanPieces] : n \in 0..MaxHref}

\* the pieces of an attribute text; "1" is a run of digits
AttrPieces == {Origin, "/photo.php", "/Photo.php", "?", "fbid=", "1", " "}
AttrTexts == UNION {[1..n -> AttrPieces] : n \in 0..MaxHref}

\* '/reel/' in lu
IsReel(u) == Contains(u, "/reel/1")

\* any(p in lu for p in patterns) or any(pp in lu for pp in profile_patterns)
MatchesPattern(u) ==
    Contains(u, "/reel/1") \/ Contains(u, "/posts/1") \/ Contains(u, "/photo.php")

\* the matches of the expression of line 375 in a text.  Its first
\* alternative, for absolute URLs, has a character class that holds the
\* backslash, the letter w and punctuation, so on an origin it matches
\* "https://www." and no more; its second alternative matches a relative
\* /photo.php?fbid= followed by digits, and what it matches further falls
\* after the "?".
EmbeddedMatches(text) ==
    {<<"https://www.">> : k \in {j \in 1..Len(text) : text[j] = Origin}}
        \cup {SubSeq(text, k, k + 3) :
                 k \in {j \in 1..(Len(text) - 3) :
                           /\ text[j] = "/photo.php"
                           /\ text[j + 1] = "?"
                           /\ text[j + 2] = "fbid="
                           /\ text[j + 3] = "1"}}

\* lines 377-379: urljoin for a relative match, then split('?')[0].split('#')[0]
CleanUrl(m) == Before(Before(Absolute(m), "?"), "#")

\* the matches of a text that lines 380-385 keep
EmbeddedKept(text) ==
    {CleanUrl(m) : m \in {x \in EmbeddedMatches(text) :
                             MatchesPattern(CleanUrl(x))}}

InitScan ==
    /\ platform = "facebook"
    /\ coll = << >>
    /\ MergeIdle
    /\ RaceIdle
    /\ TaskIdle
    /\ DiscIdle
    /\ ExpIdle
    /\ AnaIdle
    /\ CapIdle
    /\ \/ fpc = "anchor" /\ input \in ScanHrefs
       \/ fpc = "attribute" /\ input \in AttrTexts
    /\ output = << >>
    /\ again = << >>
    /\ pos = 0
    /\ out = << >>
    /\ caption_collected = FALSE

\* lines 351-365: an anchor of the page
ScanAnchor ==
    /\ fpc = "anchor"
    /\ fpc' = "scanned"
    /\ LET norm == Normalize(input) IN
       IF input = << >> \/ norm = Null \/ norm = << >>
       THEN UNCHANGED <<post_links, reels_links>>
       ELSE IF IsReel(norm)
       THEN reels_links' = reels_links \cup {norm} /\ UNCHANGED post_links
       ELSE IF MatchesPattern(norm)
       THEN post_links' = post_links \cup {norm} /\ UNCHANGED reels_links
       ELSE UNCHANGED <<post_links, reels_links>>
    /\ UNCHANGED <<platform, coll, mergeVars, raceVars, taskVars, anaVars, expVars,
                   capVars, input, output, again, pos, out, caption_collected,
                   dpc, stop_after, photo_links, last_count, attempts,
                   no_height_increase, rounds, exit, recent, steady, growing,
                   seen, ordered>>

\* lines 372-387: an element with onclick or data-* attributes
ScanAttribute ==
    /\ fpc = "attribute"
    /\ fpc' = "scanned"
    /\ reels_links' = reels_links \cup {u \in EmbeddedKept(input) : IsReel(u)}
    /\ post_links' = post_links \cup {u \in EmbeddedKept(input) : ~IsReel(u)}
    /\ UNCHANGED <<platform, coll, mergeVars, raceVars, taskVars, anaVars, expVars,
                   capVars, input, output, again, pos, out, caption_collected,
                   dpc, stop_after, photo_links, last_count, attempts,
                   no_height_increase, rounds, exit, recent, steady, growing,
                   seen, ordered>>

NextScan == ScanAnchor \/ ScanAttribute

SpecScan == InitScan /\ [][NextScan]_vars

\* ------------------------------------------------- the comment analyzer
\* analyze_comments_with_openai (routers/analysis.py).  A reply of the
\* language model is a sequence of lexical pieces: blank space, a word, the
\* braces, a member "a": 1, and an array nested deeper than the decoder's
\* recursion limit.
Deep == "[[[["
ReplyPieces == {" ", "sure", "{", "\"a\": 1", "}", Deep}
ReplyTexts == UNION {[1..n -> ReplyPieces] : n \in 0..MaxReply}

\* the exceptions the client raises
ApiErrors == {"APIError", "APITimeoutError"}

\* what openai.chat.completions.create does: it raises, or it returns a
\* reply whose message content is None or a text
Outcomes ==
    [kind : {"raise"}, exc : ApiErrors]
        \cup [kind : {"reply"}, content : ReplyTexts \cup {Null}]

\* re.search(r'\{.*\}', response_text, re.DOTALL): from the first opening
\* brace to the last closing brace after it
HasJsonMatch(t) ==
    \E f, l \in 1..Len(t) : f < l /\ t[f] = "{" /\ t[l] = "}"

JsonMatch(t) ==
    LET f == CHOOSE k \in 1..Len(t) :
                 /\ t[k] = "{"
                 /\ \A j \in 1..(k - 1) : t[j] # "{"
        l == CHOOSE k \in 1..Len(t) :
                 /\ t[k] = "}"
                 /\ \A j \in (k + 1)..Len(t) : t[j] # "}"
    IN  SubSeq(t, f, l)

\* response_text after lines 66-72
Extracted(content) ==
    IF HasJsonMatch(Strip(content)) THEN JsonMatch(Strip(content))
    ELSE Strip(content)

\* json.loads(response_text): blank space between the pieces is skipped
JsonLoads(t) ==
    LET b == SelectSeq(t, LAMBDA x : x # " ") IN
    IF b # << >> /\ b[1] = Deep
        THEN [ok |-> FALSE, exc |-> "RecursionError"]
    ELSE IF b = <<"{", "}">>
        THEN [ok |-> TRUE, value |-> << >>]
    ELSE IF b = <<"{", "\"a\": 1", "}">>
        THEN [ok |-> TRUE, value |-> [a |-> 1]]
    ELSE [ok |-> FALSE, exc |-> "JSONDecodeError"]

\* the dict of the handler of json.JSONDecodeError (lines 80-85)
FallbackParse ==
    [sentiment_percentages |-> [positive |-> 60, negative |-> 20, neutral |-> 20],
     common_themes |-> <<"General appreciation", "Product feedback",
                         "Brand loyalty", "Emojis", "Support">>,
     engagement_quality |-> "Good engagement with mixed sentiment",
     notable_patterns |-> <<"Unable to parse detailed analysis from AI response">>]

\* the dict of the handler of Exception (lines 88-93); e stands for str(e)
FallbackApi(e) ==
    [sentiment_percentages |-> [positive |-> 60, negative |-> 20, neutral |-> 20],
     common_themes |-> <<"General appreciation", "Product feedback",
                         "Brand loyalty", "Emojis", "Support">>,
     engagement_quality |-> "Good engagement with mixed sentiment",
     notable_patterns |-> <<"Analysis unavailable due to API error: ", e>>]

Returned(v) == [kind |-> "returned", value |-> v]
Raised(e) == [kind |-> "raised", exc |-> e]

InitAnalyze ==
    /\ platform = "instagram"
    /\ coll = << >>
    /\ MergeIdle
    /\ RaceIdle
    /\ TaskIdle
    /\ DiscIdle
    /\ FunIdle

\* line 35: the request is sent
CallModel(o) ==
    /\ apc = "idle"
    /\ areply' = o
    /\ aexc' = IF o.kind = "raise" THEN o.exc ELSE "none"
    /\ apc' = IF o.kind = "raise" THEN "except" ELSE "called"
    /\ json_bound' = FALSE
    /\ response_text' = << >>
    /\ aresult' = NoResult
    /\ UNCHANGED <<platform, coll, mergeVars, raceVars, taskVars, discVars,
                   fpc, input, output, again, pos, out, caption_collected,
                   capVars, expVars, afallbacks>>

\* lines 66-72: content.strip() and the search for the braces; the content
\* None has no strip
ExtractReply ==
    /\ apc = "called"
    /\ IF areply.content = Null
       THEN /\ aexc' = "AttributeError"
            /\ apc' = "except"
            /\ UNCHANGED response_text
       ELSE /\ response_text' = Extracted(areply.content)
            /\ apc' = "extracted"
            /\ UNCHANGED aexc
    /\ UNCHANGED <<platform, coll, mergeVars, raceVars, taskVars, discVars,
                   fpc, input, output, again, pos, out, caption_collected,
                   capVars, expVars, areply, json_bound, aresult, afallbacks>>

\* lines 74-75: import json binds the function's local name json, then
\* return json.loads(response_text)
LoadReply ==
    /\ apc = "extracted"
    /\ json_bound' = TRUE
    /\ IF JsonLoads(response_text).ok
       THEN /\ aresult' = Returned(JsonLoads(response_text).value)
            /\ apc' = "returned"
            /\ UNCHANGED aexc
       ELSE /\ aexc' = JsonLoads(response_text).exc
            /\ apc' = "except"
            /\ UNCHANGED aresult
    /\ UNCHANGED <<platform, coll, mergeVars, raceVars, taskVars, discVars,
                   fpc, input, output, again, pos, out, caption_collected,
                   capVars, expVars, areply, response_text, afallbacks>>

\* what the except clauses of lines 76-93 give for an exception in flight:
\* the expression json.JSONDecodeError of the first clause reads the local
\* name json, which is unbound until line 74 has run
Handled(bound, e) ==
    IF ~bound THEN Raised("UnboundLocalError")
    ELSE IF e = "JSONDecodeError" THEN Returned(FallbackParse)
    ELSE Returned(FallbackApi(e))

\* lines 76-93: the except clauses
HandleFailure ==
    /\ apc = "except"
    /\ aresult' = Handled(json_bound, aexc)
    /\ apc' = Handled(json_bound, aexc).kind
    /\ afallbacks' = IF Handled(json_bound, aexc).kind = "returned"
                     THEN afallbacks \cup {Handled(json_bound, aexc).value}
                     ELSE afallbacks
    /\ UNCHANGED <<platform, coll, mergeVars, raceVars, taskVars, discVars,
                   fpc, input, output, again, pos, out, caption_collected,
                   capVars, expVars, areply, response_text, json_bound, aexc>>

\* extract_comment_insights is called again (line 124)
NextAnalysis ==
    /\ apc \in {"returned", "raised"}
    /\ apc' = "idle"
    /\ areply' = NoReply
    /\ response_text' = << >>
    /\ json_bound' = FALSE
    /\ aexc' = "none"
    /\ aresult' = NoResult
    /\ UNCHANGED <<platform, coll, mergeVars, raceVars, taskVars, discVars,
                   fpc, input, output, again, pos, out, caption_collected,
                   capVars, expVars, afallbacks>>

NextAnalyze ==
    \/ apc = "idle" /\ \E o \in Outcomes : CallModel(o)
    \/ ExtractReply
    \/ LoadReply
    \/ HandleFailure
    \/ NextAnalysis

SpecAnalyze == InitAnalyze /\ [][NextAnalyze]_vars

\* ------------------------------------------------- reading a state or a step
\* the counts of a change summary, whatever the helper calls them
RetAdded(r) ==
    IF "added" \in DOMAIN r THEN r["added"]
    ELSE IF "new_posts" \in DOMAIN r THEN r["new_posts"]
    ELSE IF "posts_added" \in DOMAIN r THEN r["posts_added"]
    ELSE 0

RetUpdated(r) ==
    IF "updated" \in DOMAIN r THEN r["updated"]
    ELSE IF "updated_posts" \in DOMAIN r THEN r["updated_posts"]
    ELSE 0

\* no two entries of a posts list carry the same post_url
NoDuplicateUrl(ps) ==
    \A i, j \in 1..Len(ps) :
        (Url(ps[i]) # NoUrl /\ Url(ps[i]) = Url(ps[j])) => i = j

\* every record of a batch carries a post_url, no two the same
DistinctUrls(b) ==
    /\ \A i \in 1..Len(b) : Url(b[i]) # NoUrl
    /\ \A i, j \in 1..Len(b) : Url(b[i]) = Url(b[j]) => i = j

\* the positions of the records without a post_url
Anonymous(ps) == {i \in 1..Len(ps) : Url(ps[i]) = NoUrl}

\* the fresh posts whose post_url an entry of ps carries
Matched(b, ps) ==
    {i \in 1..Len(b) : Url(b[i]) # NoUrl /\ Url(b[i]) \in UrlsOf(ps)}

\* the last record of ps that carries post_url u, and its position
PositionOf(ps, u) ==
    CHOOSE i \in 1..Len(ps) :
        /\ Url(ps[i]) = u
        /\ \A j \in 1..Len(ps) : Url(ps[j]) = u => j <= i

RecordOf(ps, u) == ps[PositionOf(ps, u)]

\* the keys carried by the records of b with post_url u
FreshKeys(b, u) == UNION {DOMAIN b[i] : i \in {j \in 1..Len(b) : Url(b[j]) = u}}

\* a step that is a serial merge on the update path / a repeated merge
UpdateStep == pc' = "merged" /\ ret'.operation = "updated"
RetryStep == pc = "merged" /\ pc' = "merged"

\* both concurrent merges have written
RaceFinal == \A t \in Tasks : tpc[t] = "done"

\* the two merges raced on the update path: each found the aggregate, and
\* both had read before either wrote
UpdateRace == raced /\ \A t \in Tasks : snap[t].id # NoId

\* the post_urls a concurrent merge appended: those of its batch that the
\* aggregate it read did not carry
AppendedBy(t) == UrlsOf(tbatch[t]) \ UrlsOf(GetPosts(platform, snap[t].doc))

\* ------------------------------------------------------------------- claims

\* C1: after any sequence of serial merges from no aggregate, with arbitrary
\* fresh batches, the persisted aggregate has no two entries with the same
\* post_url.
C1_UniquePostUrl ==
    \A profile \in Profiles : NoDuplicateUrl(AggPosts(profile))

\* C2: when two merges of one profile interleave on the update path (both
\* read the aggregate before either writes), the later write clobbers the
\* earlier one: in the final state every post_url that the earlier writer
\* appended and the later writer's batch does not carry is absent from the
\* persisted aggregate.
C2_LaterWriteClobbers ==
    (RaceFinal /\ UpdateRace) =>
        \A profile \in Profiles :
            \A u \in AppendedBy(order[1]) \ UrlsOf(tbatch[order[2]]) :
                u \notin UrlsOf(AggPosts(profile))

\* C2 witness: a final state of such a race in which the earlier writer had
\* appended a post_url that the persisted aggregate does not carry.
C2_Witness ==
    /\ RaceFinal
    /\ UpdateRace
    /\ \E profile \in Profiles :
          \E u \in AppendedBy(order[1]) : u \notin UrlsOf(AggPosts(profile))

\* C3: when the merges of a profile are serialized, the persisted aggregate
\* has an entry for every post_url supplied in any merged batch.
C3_NoPostUrlLost ==
    \A profile \in Profiles : supplied \subseteq UrlsOf(AggPosts(profile))

\* C3 witness: an update-path merge has run after an earlier merge had
\* supplied another post_url.
C3_Witness ==
    /\ pc = "merged"
    /\ ret.operation = "updated"
    /\ supplied = URLs
    /\ UrlsOf(batch) # supplied

\* C4: in every reachable state, also when two first-time merges of a
\* profile run concurrently, at most one aggregate document exists per
\* profile.
C4_OneAggregatePerProfile ==
    \A profile \in Profiles :
        Cardinality({i \in 1..Len(coll) : coll[i].profile = profile}) <= 1

C7_SummaryAccountsForBatch ==
    [][UpdateStep =>
        \A profile \in Profiles :
            /\ RetAdded(ret') + RetUpdated(ret') = Len(batch)
            /\ Len(AggPosts(profile)') = Len(AggPosts(profile)) + RetAdded(ret')
            /\ DistinctUrls(batch) =>
                  RetUpdated(ret') = Cardinality(Matched(batch, AggPosts(profile)))]_vars

\* C8: on the update path a fresh post without post_url is always appended
\* and counted as added: it is never dropped and never replaces an entry.
C8_AnonymousAppended ==
    [][UpdateStep =>
        \A profile \in Profiles :
            /\ Cardinality(Anonymous(AggPosts(profile)'))
                  = Cardinality(Anonymous(AggPosts(profile)))
                      + Cardinality(Anonymous(batch))
            /\ RetAdded(ret') >= Cardinality(Anonymous(batch))
            /\ \A i \in Anonymous(AggPosts(profile)) :
                  AggPosts(profile)'[i] = AggPosts(profile)[i]]_vars

\* C9: in every persisted aggregate the stored count (total_posts,
\* total_tweets) equals the length of the stored posts list.
C9_TotalIsLength ==
    \A i \in 1..Len(coll) :
        coll[i][TotalKey(platform)] = Len(coll[i][PostsKey(platform)])

\* C9 witness: an update-path merge has appended to the list.
C9_Witness ==
    /\ pc = "merged"
    /\ ret.operation = "updated"
    /\ RetAdded(ret) >= 1
    /\ \E profile \in Profiles :
          /\ HasAggregate(profile)
          /\ Aggregate(profile)[TotalKey(platform)] = 2

\* C10: within one scrape task the persisted aggregate is unchanged from the
\* task's start until every selected candidate has been scraped: the store
\* differs from what it was only once the task is done and past its last
\* candidate, so a task cancelled earlier leaves the store as it was.
C10_SingleWriteAtEnd ==
    /\ phase \in {"discover", "scrape", "save", "cancelled"} => coll = coll0
    /\ coll # coll0 => (phase = "done" /\ nextc > Len(cands))

\* C10 witness: a task cancelled in the middle of its loop, one record
\* scraped and a candidate still to go.
C10_Witness ==
    /\ phase = "cancelled"
    /\ Len(results) >= 1
    /\ nextc <= Len(cands)
    /\ coll = coll0

\* the caller is told the task failed: an error status, or success: false
Failed(r) == r.status >= 400 \/ r.success = "false"

\* the responses a route can give for one cause of failure
ResponsesFor(ep, c) ==
    CASE c = "no-content" -> {NoContentResponse(ep)}
      [] c = "auth" ->
            IF NeedsLogin(ep)
            THEN {AuthFailureResponse(ep, err) : err \in LoginErrors} ELSE {}
      [] c = "store" -> {StoreFailureResponse(ep, b) : b \in BOOLEAN}

FailureCauses == {"no-content", "auth", "store"}

\* C11: a task whose aggregate write the store rejected reports a failure to
\* its caller, never success.
C11_RejectedWriteReported ==
    (phase = "done" /\ cause = "store") => Failed(response)

\* C12: the response of a task that ended for one of the three causes (no
\* content found, session not authenticated, store unavailable) is a response
\* the route gives for that cause only: the caller can tell the causes apart.
C12_CausesDistinguishable ==
    (phase = "done" /\ cause \in FailureCauses) =>
        \A c \in FailureCauses \ {cause} : response \notin ResponsesFor(endpoint, c)

\* a discovery loop is running or has just ended
InLoop == dpc \in {"photos", "photos_done", "scroll", "scroll_done"}

\* C13: the round budget bounds the number of rounds of a discovery loop
\* also when there is no max_posts and the page has shown a new link in
\* every round.
C13_RoundsWithinBudget ==
    (InLoop /\ stop_after = 0 /\ growing) => rounds <= max_attempts

\* C14: with max_posts = k > 0 and pages that show a new link in every
\* round, each discovery loop ends within k rounds and the candidates
\* selected are exactly k, also when a round showed several links at once.
C14_ExactlyCapLinks ==
    (stop_after > 0 /\ growing) =>
        /\ InLoop => rounds <= stop_after
        /\ dpc = "returned" => Len(ordered) = stop_after

\* C14 witness: a discovery with a cap has returned after rounds that all
\* showed new links, and the loops had found more links than the cap.
C14_Witness ==
    /\ dpc = "returned"
    /\ stop_after > 0
    /\ growing
    /\ Cardinality(post_links \cup reels_links) > stop_after
    /\ Len(ordered) = stop_after

\* the last no_height_threshold rounds all saw the page height unchanged and
\* the last round found no new link
SignalSeen ==
    /\ Len(recent) = no_height_threshold
    /\ \A i \in 1..Len(recent) : ~recent[i].grew
    /\ ~recent[Len(recent)].new

C16_SteadyPageStopsEarly ==
    (InLoop /\ steady /\ rounds > 0) =>
        /\ rounds <= no_height_threshold
        /\ exit # "budget"
        /\ rounds = no_height_threshold => exit = "stale"

\* C16 witness: scroll_and_extract has stopped through the stale signal after
\* 3 rounds on such a page with links.
C16_Witness ==
    /\ dpc = "scroll_done"
    /\ steady
    /\ rounds = no_height_threshold
    /\ exit = "stale"
    /\ post_links # {}
    /\ stop_after = 0

\* the position of a link in the order of first discovery
SeenAt(l) == CHOOSE i \in 1..Len(seen) : seen[i] = l

\* C17: the candidates returned hold each canonical URL once and stand in
\* the order in which the URLs were first discovered.
C17_DiscoveryOrderKept ==
    dpc = "returned" =>
        /\ \A i, j \in 1..Len(ordered) : ordered[i] = ordered[j] => i = j
        /\ \A i, j \in 1..Len(ordered) :
              i < j => SeenAt(ordered[i]) < SeenAt(ordered[j])

\* C18: the normalizer applied to its own non-null result returns that
\* result unchanged.
C18_NormalizeIdempotent == fpc = "twice" => again = output

\* the href read as a URL: what stands before the first ? or #, and the
\* query between the first ? and the fragment
PathOf(h) == Before(Before(h, "#"), "?")
QueryOf(h) == After(Before(h, "#"), "?")
IsPhotoHref(h) == Contains(PathOf(h), "/photo.php")
HasFbid(h) == Contains(QueryOf(h), "fbid=")

\* C19: a photo.php href is returned with its whole query and without its
\* fragment when the query carries fbid, and is rejected (null) when the
\* query carries no fbid.
C19_PhotoNeedsFbidInQuery ==
    (fpc # "start" /\ IsPhotoHref(input)) =>
        IF HasFbid(input)
        THEN output = Before(Absolute(Strip(input)), "#")
        ELSE output = Null

\* a token that is free text: no username, time, likes or UI token
is_text_token(t) ==
    ~is_username_token(t) /\ ~is_time_token(t) /\ ~is_likes_token(t) /\ ~is_ui_token(t)

\* the token list [u, u, t, tm, lk] of a username, a free text, a time and
\* a likes token
IsDoubledCommentList(arr) ==
    /\ Len(arr) = 5
    /\ is_username_token(arr[1]) /\ ~is_ui_token(arr[1])
    /\ arr[2] = arr[1]
    /\ is_text_token(arr[3])
    /\ is_time_token(arr[4])
    /\ is_likes_token(arr[5])

\* C20: parse([u, u, t, tm, lk]) returns exactly one comment, with username
\* u, text t, postedBefore tm and likes lk.
C20_DoubledCommentParsed ==
    (fpc = "parsed" /\ IsDoubledCommentList(input)) =>
        output = <<Comment(input[1], <<input[3]>>, input[4], input[5])>>

\* ---------------------------------------------------------------- claim C21
\* C21: parse_comments_array is total.  Every iteration of its main loop moves
\* the index forward by at least one and never past the length of the list, so
\* no token is read outside the list and the loop ends; the parse returns; and
\* the result for the empty list and for a list of UI tokens only is empty.
C21_ParserTotal ==
    /\ [][/\ ParseStep => (pos' > pos /\ pos' <= Len(input))
          /\ ParseReturn => (AllUi(input) => output' = << >>)]_vars
    /\ <>(fpc = "parsed")

\* a full-length list holding a comment after a caption has been parsed, as has
\* a list of UI tokens only
C21_Witness ==
    /\ fpc = "parsed"
    /\ Len(input) = MaxLiveTokens
    /\ \/ Len(output) >= 2
       \/ AllUi(input) /\ output = << >>

\* ---------------------------------------------------------------- claim C22
\* the iteration of the main loop that reads the caption block
CaptionStep == ParseStep /\ ~caption_collected /\ caption_collected'

\* every token before the index is a UI token
AtStreamStart(arr, k) == \A j \in 1..k : is_ui_token(arr[j])

\* C22: the caption-block rule is applied at most once per parse and only at
\* the start of the stream: the token it takes as the caption author is the
\* first token of the stream that is not a UI token.
C22_CaptionOnlyAtStart ==
    [][CaptionStep => AtStreamStart(input, pos)]_vars

\* ---------------------------------------------------------------- claim C23
\* the position (from 1) of the first token at or after position k that
\* satisfies P, and one past the end of the list when there is none
FirstAt(arr, k, P(_)) ==
    LET S == {j \in k..Len(arr) : P(arr[j])}
    IN  IF S = {} THEN Len(arr) + 1 ELSE Least(S)

\* the tokens at the positions from..to of the list, but for position skip,
\* that a caption keeps: neither UI tokens nor likes tokens
RECURSIVE CaptionTextOf(_, _, _, _)
CaptionTextOf(arr, from, to, skip) ==
    IF from > to THEN << >>
    ELSE LET rest == CaptionTextOf(arr, from + 1, to, skip)
         IN  IF from = skip \/ is_ui_token(arr[from]) \/ is_likes_token(arr[from])
             THEN rest
             ELSE <<arr[from]>> \o rest

\* the record a caption step has appended, if it appended one
CaptionRecord == out'[Len(out')]

\* what a caption step must have done
CaptionStopsRight ==
    LET T == FirstAt(input, pos + 2, is_time_token)
        U == FirstAt(input, T + 1, is_username_token)
    IN  /\ pos' = U - 1
        /\ (Len(out') = Len(out) + 1) =>
               /\ CaptionRecord.username = Tok(input, pos)
               /\ CaptionRecord.text = CaptionTextOf(input, pos + 2, U - 1, T)

\* an iteration after the caption that meets a username token, not a UI token
CommentStart ==
    /\ ParseStep
    /\ caption_collected
    /\ is_username_token(Tok(input, pos))
    /\ ~is_ui_token(Tok(input, pos))

\* the iteration has appended a record for the username it met
CommentOpened ==
    /\ Len(out') = Len(out) + 1
    /\ out'[Len(out')].username = Tok(input, pos)

\* C23 as stated: the caption block stops at the first username token that
\* follows the caption author; no token at or after it is consumed.
C23_CaptionStopsAtSecondUsername ==
    [][CaptionStep =>
          pos' = FirstAt(input, pos + 2, is_username_token) - 1]_vars

\* C23, amended: the caption block consumes every token up to its first time
\* token, usernames included; after that time token it stops at the first
\* token that has the form of a username.  The block consumes no token at or
\* after that one, the record it emits holds only tokens before it, and the
\* next iteration starts there: a username token that is not a UI token opens
\* the next comment record.
C23_CaptionStopsAtUsernameAfterTime ==
    [][ /\ CaptionStep => CaptionStopsRight
        /\ CommentStart => CommentOpened ]_vars

\* a caption block has taken a username before its time token as text and
\* has stopped at a username after it
C23_Witness ==
    /\ fpc = "parsing"
    /\ caption_collected
    /\ Len(out) = 1
    /\ pos < Len(input)
    /\ out[1].posted_before # ""
    /\ \E k \in 1..Len(out[1].text) : is_username_token(out[1].text[k])
    /\ is_username_token(Tok(input, pos))
    /\ ~is_ui_token(Tok(input, pos))

\* ---------------------------------------------------------------- claim C24
\* the record the parser's caption block emits on a raw token list, if any
StreamCaption(arr) ==
    LET k == FirstAt(arr, 1, LAMBDA t : ~is_ui_token(t))
    IN  IF k <= Len(arr) /\ is_username_token(arr[k])
        THEN CaptionBlock(arr, [i |-> k - 1, out |-> << >>, cc |-> FALSE]).out
        ELSE << >>

\* C24: when the page has a usable header caption and the token stream has a
\* caption block too, the caption of the post record is the header's and the
\* caption block of the stream is not among the comments of the record.
C24_HeaderCaptionWins ==
    ( /\ fpc = "scraped"
      /\ UsableMeta(meta_caption)
      /\ StreamCaption(input) # << >> ) =>
        /\ output.caption = <<meta_caption>>
        /\ \A k \in 1..Len(output.comments) :
               output.comments[k] # StreamCaption(input)[1]

\* ---------------------------------------------------------------- claim C25
\* any(ch.isalnum() for ch in t) on a token
HasAlnum(t) == t # "!!!"

\* a text, the sequence of its parts, that is not empty and holds no letter
\* and no digit
SymbolsOnly(text) ==
    /\ text # << >>
    /\ \A k \in 1..Len(text) : ~HasAlnum(text[k])

\* C25: every comment record the parser emits whose text holds no letter and
\* no digit has its text blanked (and is marked is_emoji_only), so no record
\* the parser returns has a text that is not empty and holds neither.
C25_SymbolOnlyTextBlanked ==
    fpc = "parsed" =>
        \A k \in 1..Len(output) : ~SymbolsOnly(output[k].text)

\* ---------------------------------------------------------------- claim C26
\* C26: the comment-expansion loop makes a bounded number of rounds whatever
\* the page does: on no platform does it make more rounds than the budget of
\* max_load_attempts rounds.
C26_ExpansionBounded == xrounds <= max_load_attempts

\* ---------------------------------------------------------------- claim C27
\* C27: when the page of a candidate cannot be opened, its extraction gives an
\* empty comment list without raising, and the batch holds a record for that
\* URL with no comments.
C27_FailedNavigationRecorded ==
    \A u \in navfailed :
        \E k \in 1..Len(results) :
            Url(results[k]) = u /\ results[k].comments = NoComments

\* ---------------------------------------------------------------- claim C28
\* C28: every candidate selected is taken up exactly once, and a candidate
\* that fails does not keep the later ones from being taken up: when the loop
\* is over, the candidates taken up are the candidates selected, in order.
C28_EveryCandidateAttempted ==
    phase \in {"save", "done"} => attempted = cands

\* ---------------------------------------------------------------- claim C29
\* C29: a task whose discovery ends with no candidate reports a no-content
\* outcome, not the result of a normal scrape.
C29_NoCandidatesNoContent ==
    (phase = "done" /\ cands = << >> /\ cause = "no-content") =>
        response # SuccessResponse(endpoint)

\* ---------------------------------------------------------------- claim C30
\* the latest scraped_at among the records of a batch that is not empty
MaxStamp(b) ==
    CHOOSE t \in {ScrapedAt(b[k]) : k \in 1..Len(b)} :
        \A k \in 1..Len(b) : ScrapedAt(b[k]) <= t

\* C30: a merge that finds no aggregate for the profile creates one whose
\* posts are the fresh posts, whose count is their number and whose
\* last-scraped stamp is the latest scraped_at among them, and its summary
\* says inserted with added = the number of fresh posts.  The records of
\* twitter carry no scraped_at of their own, so the stamp is compared on the
\* other platforms.
C30_InsertCreatesAggregate ==
    (pc = "merged" /\ ret.operation = "inserted") =>
        \A profile \in Profiles :
            /\ HasAggregate(profile)
            /\ AggPosts(profile) = batch
            /\ Aggregate(profile)[TotalKey(platform)] = Len(batch)
            /\ (batch # << >> /\ platform # "twitter") =>
                   GetStamp(platform, Aggregate(profile)) = MaxStamp(batch)
            /\ RetAdded(ret) = Len(batch)


\* the stored stamp of the aggregate of a profile
AggStamp(profile) == GetStamp(platform, Aggregate(profile))

\* C31: merging an empty batch into an existing aggregate leaves its posts,
\* its count and its last-scraped stamp as they were, and merging a batch
\* that is not empty sets the stamp to the scraped_at of the first fresh post.
C31_EmptyBatchKeepsAggregate ==
    [][ \A profile \in Profiles :
          (UpdateStep /\ HasAggregate(profile)) =>
              /\ batch = << >> =>
                    /\ AggPosts(profile)' = AggPosts(profile)
                    /\ Aggregate(profile)'[TotalKey(platform)]
                           = Aggregate(profile)[TotalKey(platform)]
                    /\ AggStamp(profile)' = AggStamp(profile)
              /\ batch # << >> =>
                    AggStamp(profile)' = ScrapedAt(batch[1]) ]_vars

\* C31 as the helpers have it: the posts and the count are kept by every
\* platform; the stamp is kept (empty batch) or taken from the first fresh
\* post on youtube, facebook and instagram; the twitter helper stamps the
\* aggregate with the clock of the merge whatever the batch holds.
C31_EmptyBatchKeepsPostsAndCount ==
    [][ \A profile \in Profiles, now \in Times :
          (Merge(profile, now) /\ HasAggregate(profile)) =>
              /\ ret'.operation = "updated"
              /\ batch = << >> =>
                    /\ AggPosts(profile)' = AggPosts(profile)
                    /\ Aggregate(profile)'[TotalKey(platform)]
                           = Aggregate(profile)[TotalKey(platform)]
              /\ (batch = << >> /\ platform # "twitter") =>
                    AggStamp(profile)' = AggStamp(profile)
              /\ (batch # << >> /\ platform # "twitter") =>
                    AggStamp(profile)' = ScrapedAt(batch[1])
              /\ platform = "twitter" => AggStamp(profile)' = now ]_vars

\* an empty batch was merged into an aggregate that holds posts and a stamp
C31_Witness ==
    /\ pc = "merged"
    /\ batch = << >>
    /\ ret.operation = "updated"
    /\ \E profile \in Profiles :
          /\ HasAggregate(profile)
          /\ Len(AggPosts(profile)) > 0
          /\ AggStamp(profile) # NoTime


\* the calls a concurrent task has made when it stands at a position
CallsAt(t) ==
    CASE tpc[t] \in {"idle", "read"} -> << >>
      [] tpc[t] = "write" -> <<"find_one">>
      [] tpc[t] = "done" ->
            <<"find_one", IF snap[t].id = NoId THEN "insert_one" ELSE "update_one">>

\* C32: one merge invocation makes exactly one read and then exactly one
\* write on the collection, an insert_one when its read found no document
\* and an update_one when it found one, and nothing keeps another invocation
\* from reading between the two: a task that is about to read can always
\* read, whatever the position of the other task.
C32_OneReadThenOneWrite ==
    /\ \A t \in Tasks : calls[t] = CallsAt(t)
    /\ \A t \in Tasks :
          tpc[t] = "read" => ENABLED (\E profile \in Profiles : Read(t, profile))

\* C32 witness: both invocations are done, each after its one read and its
\* one update_one, and one of them read while the other stood between its
\* read and its write.
C32_Witness ==
    /\ RaceFinal
    /\ raced
    /\ \A t \in Tasks : calls[t] = <<"find_one", "update_one">>


\* the call of the analyzer has ended after a failure of the model call
AnalyzerFailed == apc \in {"returned", "raised"} /\ aexc # "none"

\* C33: when the call to the language model fails (the client raises, the
\* reply has no usable content, the reply is not JSON), the analyzer returns
\* a value to its caller, never an exception, and that value is the same for
\* every failure.
C33_FixedFallback ==
    /\ AnalyzerFailed => aresult.kind = "returned"
    /\ Cardinality(afallbacks) <= 1


\* the token the main loop stands on is an orphan time or likes token: it is
\* no UI word and has not the form of a username, so no branch that opens a
\* record takes it
OrphanHere ==
    /\ fpc = "parsing"
    /\ pos < Len(input)
    /\ ~is_ui_token(Tok(input, pos))
    /\ ~is_username_token(Tok(input, pos))
    /\ is_time_token(Tok(input, pos)) \/ is_likes_token(Tok(input, pos))

\* the time and the likes an orphan token carries
OrphanPosted(t) == IF is_time_token(t) THEN extract_time_and_likes(t).posted ELSE ""
OrphanLikes(t) == IF is_time_token(t) THEN extract_time_and_likes(t).likes ELSE t

\* the last record after the step is the last record before it with its
\* empty posted_before and likes filled from the token
FilledFrom(old, new, t) ==
    /\ new.username = old.username
    /\ new.text = old.text
    /\ new.reply = old.reply
    /\ new.posted_before =
           IF old.posted_before # "" THEN old.posted_before ELSE OrphanPosted(t)
    /\ new.likes = IF old.likes # "" THEN old.likes ELSE OrphanLikes(t)

\* C34: an orphan time or likes token creates no record; it is dropped when
\* no record has been emitted; otherwise it changes only the last record,
\* and there only the posted_before and likes that were empty, which it
\* fills from the token; a field that holds a value keeps it.
C34_OrphanFillsEmptyOnly ==
    [][ OrphanHere =>
          /\ pos' = pos + 1
          /\ Len(out') = Len(out)
          /\ \A k \in 1..(Len(out) - 1) : out'[k] = out[k]
          /\ out # << >> =>
                FilledFrom(out[Len(out)], out'[Len(out)], Tok(input, pos)) ]_vars

\* C34 witness: after the caption block a comment was opened that took its
\* likes from the list, and the parser stands past an orphan time token: the
\* orphan filled the empty posted_before of that comment and left its likes
C34_Witness ==
    /\ fpc = "parsing"
    /\ input = <<"alice", "2 h", "alice", "15 likes", "2 h 15 likes">>
    /\ pos = 5
    /\ out = <<Comment("alice", << >>, "2h", ""),
               Comment("alice", << >>, "2h", "15 likes")>>


\* the URLs the scan of an element finds before it treats them: the href of
\* an anchor, the matches in an attribute text
FoundUrls == IF fpc = "anchor" THEN {input} ELSE EmbeddedMatches(input)

\* C35: every URL the link scan puts into the lists it returns has passed
\* through the link normalizer: it is the non-null result of the normalizer
\* on a URL found in the element, whether an anchor's href or a match in an
\* attribute text; and a URL of photo.php in the lists carries its fbid.
C35_ReturnedLinksNormalized ==
    [][ fpc' = "scanned" =>
          \A u \in post_links' \cup reels_links' :
              /\ u \in {Normalize(r) : r \in FoundUrls} \ {Null}
              /\ Contains(u, "/photo.php") => Contains(u, "fbid=") ]_vars


\* C36: the batch a scrape task hands to the merge holds no two records
\* with the same post_url, on every route: when the task stands before its
\* merge call its results carry pairwise different URLs.
C36_BatchUrlsDistinct ==
    phase = "save" => NoDuplicateUrl(results)


\* the positions of the first k tokens of a list that have the form of a
\* username
UsernamePositions(arr, k) == {j \in 1..k : is_username_token(arr[j])}

\* C37: the parser returns at most as many records as its input has tokens
\* of the form of a username, and the username of every record is such a
\* token of the input.  It holds of the records emitted so far and the
\* tokens read so far at every iteration.
C37_RecordsBoundedByUsernames ==
    /\ fpc = "parsing" =>
          /\ Len(out) <= Cardinality(UsernamePositions(input, pos))
          /\ \A k \in 1..Len(out) :
                \E j \in UsernamePositions(input, pos) : input[j] = out[k].username
    /\ fpc = "parsed" =>
          /\ Len(output) <= Cardinality(UsernamePositions(input, Len(input)))
          /\ \A k \in 1..Len(output) :
                \E j \in UsernamePositions(input, Len(input)) :
                    input[j] = output[k].username

\* C37 witness: a parse returned two records for a list with four tokens of
\* the form of a username: the second became caption text and the third, a
\* compact time, the caption's time
C37_Witness ==
    /\ fpc = "parsed"
    /\ input = <<"alice", "bob", "2h", "alice">>
    /\ Len(output) = 2
    /\ Cardinality(UsernamePositions(input, Len(input))) = 4
    /\ output[1].text = <<"bob">>


\* C38: a scrape task that opened a browser has closed it when it is over,
\* however it ended: after its merge, on an early return, on an HTTP error
\* and on an exception.
C38_SessionClosedOnExit ==
    (phase = "done" /\ session # "none") => session = "closed"

====
